---- MODULE Spec2Model ----
(***************************************************************************)
(* Verification model of the EVENTIX ticketing platform.                   *)
(*                                                                         *)
(* Part I  : the event-service seat reservation store                      *)
(*           (routes/seat_reservation_routes.py, routes/utility_routes.py, *)
(*           workflow_handler.py of the event service).                    *)
(* Part II : the shared WorkflowManager (shared/workflow_manager.py) with  *)
(*           the workflow definitions of the booking service.              *)
(*                                                                         *)
(* Part III: the booking and payment services coupled by the bus.          *)
(* Part IV-VI: circuit breaker and rate limiters of the API gateway.       *)
(* Part VII-IX: queue consumption, event ids, notifications.               *)
(* Part X  : the create route of booking_service and the handlers that     *)
(*           react to booking.initiated.                                   *)
(* Part XI : routing of published messages to the service queues.          *)
(* Part XII: the Kafka saga orchestrator (saga_orchestrator.py).           *)
(* Part XIII: the in-process SagaOrchestrator (shared/event_handler.py).   *)
(*                                                                         *)
(* Each part has its own specification; the variables of the other parts   *)
(* stay at their initial value.                                            *)
(***************************************************************************)
EXTENDS Integers, Sequences, FiniteSets, TLC

VARIABLES
    \* Part I: seat reservation store
    seatStatus,      \* Seat.status of every seat row
    reservations,    \* the seat_reservations table, in insertion order
    now,             \* datetime.utcnow(), in minutes
    sess,            \* in-flight create_seat_reservation requests (one DB session each)
    reserveOut,      \* the last seats.reserve_response of handle_seat_reservation
    \* Part II: WorkflowManager
    active,          \* keys of WorkflowManager.active_workflows
    wfType,          \* Workflow.workflow_type
    wfStatus,        \* Workflow.status
    statusLog,       \* the values Workflow.status has taken, in order
    steps,           \* Workflow.steps: status, result, error, completed_at of every step
    execIdx,         \* position of the execute_workflow loop of every workflow
    timer,           \* state of Workflow.timeout_task
    timerTodo,       \* steps the timeout task has still to compensate
    published,       \* every message handed to the event publisher, in order
    nResp,           \* number of step responses delivered so far (the clock of completed_at)
    lateDrop,        \* workflows for which a response was dropped as unknown
    \* Part III: booking and payment services
    bookings,        \* the bookings table: status, payment_id, expires_at of every booking
    payments,        \* the payments table: status, booking_id, number of Refund rows
    bus,             \* the booking and payment events published so far (delivered at least once)
    pubCount,        \* how often an event of a type was published for a booking
    \* Part IV: the circuit breaker of the API gateway
    cbState,         \* CircuitBreaker.state
    failure_count,   \* CircuitBreaker.failure_count
    last_failure_time, \* CircuitBreaker.last_failure_time
    cbNow,           \* time.time(), in seconds
    cbCalls,         \* the wrapped calls in flight, and how each was let through
    streak,          \* failed calls since the last successful call
    cbAnswer,        \* how the wrapper answered the last call of every caller
    \* Part V: the in-memory rate limiter of the API gateway
    rlNow,           \* time.time(), in seconds
    requests,        \* RateLimiter.requests: the admission times of every client, oldest first
    rlLog,           \* how many requests of a client were admitted at each time
    rlAnswer,        \* the last answer of is_allowed to every client
    \* Part VI: the Redis rate limiter of the API gateway (one client IP)
    rrNow,           \* the clock of the Redis server, in seconds
    redisKey,        \* the key rate_limit:<client_ip>: its value and the time it expires
    rrPc,            \* position of every is_allowed invocation
    current,         \* the value redis_client.get returned to every invocation
    rrAnswer,        \* the last answer of is_allowed to every invocation
    rrAdmitted,       \* requests admitted since the key was created while absent
    \* Part VII: the queue of the booking service
    mq,              \* every message of booking-service.queue: state, payload, outcome of its handler
    \* Part VIII: event ids of published events
    pubClock,        \* datetime.utcnow().timestamp(), in whole seconds
    pubLog,          \* the event_id of every event handed to the broker, in order
    uuids,           \* how many uuid4 values have been drawn
    \* Part IX: notifications of the user service
    notifications,   \* the rows NotificationService has committed, in order
    deliveries,      \* how often the bus has delivered every booking event to the user service
    \* Part X: the create route of booking_service and the services that react to booking.initiated
    stored,          \* the bookings table of booking_service with the items of every booking
    reqPc,           \* position of the create request of every booking
    seatsDone,       \* seats for which the event service has published seat.reserved
    payDone,         \* whether the payment service has handled booking.initiated
    \* Part XI: routing of published messages to the service queues
    queues,          \* the messages waiting in <service>.queue
    delivered,       \* every message the broker has ever put into <service>.queue
    sent,            \* every message handed to an exchange
    \* the saga_transactions table of the booking service
    sagaRow,         \* SagaTransaction.status of the row written for every workflow
    \* Part XII: the Kafka saga orchestrator
    sagas,           \* SagaOrchestrator.sagas: state, current_step and step statuses of every saga
    commands,        \* every command handed to the Kafka producer, in order
    sagaEvents,      \* the saga events handled so far, in order
    \* Part XIII: the in-process SagaOrchestrator of shared/event_handler.py
    runs,            \* every execute_saga call: position, executed_steps, compensations called
    \* the seat-release compensation of the event service
    releaseLog       \* the workflows for which handle_seat_release has logged a release

storeVars == <<seatStatus, reservations, now, sess>>
reserveVars == <<reserveOut>>
wmVars == <<active, wfType, wfStatus, statusLog, steps, execIdx, timer, timerTodo,
            published, nResp, lateDrop>>

bpVars == <<bookings, payments, bus, pubCount>>

cbVars == <<cbState, failure_count, last_failure_time, cbNow, cbCalls, streak, cbAnswer>>

rlVars == <<rlNow, requests, rlLog, rlAnswer>>

rrVars == <<rrNow, redisKey, rrPc, current, rrAnswer, rrAdmitted>>

mqVars == <<mq>>

idVars == <<pubClock, pubLog, uuids>>

ntVars == <<notifications, deliveries>>

chVars == <<stored, reqPc, seatsDone, payDone>>

rtVars == <<queues, delivered, sent>>

sagaVars == <<sagaRow>>

ksVars == <<sagas, commands, sagaEvents>>

sgVars == <<runs>>

relVars == <<releaseLog>>

vars == <<storeVars, reserveVars, wmVars, bpVars, cbVars, rlVars, rrVars, mqVars, idVars, ntVars, chVars, rtVars, sagaVars, ksVars, sgVars, relVars>>

\* what each part leaves alone
outsideStore == <<reserveVars, wmVars, bpVars, cbVars, rlVars, rrVars, mqVars, idVars, ntVars, chVars, rtVars, sagaVars, ksVars, sgVars, relVars>>
outsideReserve == <<now, sess, wmVars, bpVars, cbVars, rlVars, rrVars, mqVars, idVars, ntVars, chVars, rtVars, sagaVars, ksVars, sgVars, relVars>>
outsideWM == <<storeVars, reserveVars, bpVars, cbVars, rlVars, rrVars, mqVars, idVars, ntVars, chVars, rtVars, sagaVars, ksVars, sgVars, relVars>>
outsideBP == <<seatStatus, reservations, sess, reserveVars, wmVars, cbVars, rlVars, rrVars, mqVars, idVars, ntVars, chVars, rtVars, sagaVars, ksVars, sgVars, relVars>>
outsideCB == <<storeVars, reserveVars, wmVars, bpVars, rlVars, rrVars, mqVars, idVars, ntVars, chVars, rtVars, sagaVars, ksVars, sgVars, relVars>>
outsideRL == <<storeVars, reserveVars, wmVars, bpVars, cbVars, rrVars, mqVars, idVars, ntVars, chVars, rtVars, sagaVars, ksVars, sgVars, relVars>>
outsideRR == <<storeVars, reserveVars, wmVars, bpVars, cbVars, rlVars, mqVars, idVars, ntVars, chVars, rtVars, sagaVars, ksVars, sgVars, relVars>>
outsideMQ == <<seatStatus, reservations, sess, reserveVars, wmVars, cbVars, rlVars, rrVars, idVars, ntVars, chVars, rtVars, sagaVars, ksVars, sgVars, relVars>>
outsideID == <<storeVars, reserveVars, wmVars, bpVars, cbVars, rlVars, rrVars, mqVars, ntVars, chVars, rtVars, sagaVars, ksVars, sgVars, relVars>>
outsideNT == <<storeVars, reserveVars, wmVars, bpVars, cbVars, rlVars, rrVars, mqVars, idVars, chVars, rtVars, sagaVars, ksVars, sgVars, relVars>>
outsideCH == <<seatStatus, reservations, sess, reserveVars, wmVars, cbVars, rlVars, rrVars, mqVars, idVars, ntVars, rtVars, sagaVars, ksVars, sgVars, relVars>>
outsideRT == <<storeVars, reserveVars, wmVars, bpVars, cbVars, rlVars, rrVars, mqVars, idVars, ntVars, chVars, sagaVars, ksVars, sgVars, relVars>>
outsideSaga == <<storeVars, reserveVars, wmVars, bpVars, cbVars, rlVars, rrVars, mqVars, idVars, ntVars, chVars, rtVars, ksVars, sgVars, relVars>>
outsideKS == <<storeVars, reserveVars, wmVars, bpVars, cbVars, rlVars, rrVars, mqVars, idVars, ntVars, chVars, rtVars, sagaVars, sgVars, relVars>>
outsideSG == <<storeVars, reserveVars, wmVars, bpVars, cbVars, rlVars, rrVars, mqVars, idVars, ntVars, chVars, rtVars, sagaVars, ksVars, relVars>>
outsideRel == <<storeVars, reserveVars, wmVars, bpVars, cbVars, rlVars, rrVars, mqVars, idVars, ntVars, chVars, rtVars, sagaVars, ksVars, sgVars>>

----------------------------------------------------------------------------
(* Bounds *)

MaxReservations == 2
MaxNow == 16

----------------------------------------------------------------------------
(* Part I: seat reservation store *)

SeatIds == {"s1", "s2"}
MissingSeat == "s_missing"
EventIds == {"e1", "e2"}
MissingEvent == "e_missing"
Users == {"u1"}
Callers == {"u1", "u2", "admin"}
Sessions == {"q1", "q2"}
\* the seats that HTTP reservation requests name
RequestSeats == {"s1", MissingSeat}

\* models.py lines 61-66: ReservationStatus (the definition in force)
PENDING == "pending"
CONFIRMED == "confirmed"
EXPIRED == "expired"
CANCELLED == "cancelled"
COMPLETED == "completed"
ReservationStatus == {PENDING, CONFIRMED, EXPIRED, CANCELLED, COMPLETED}

\* models.py: SeatStatus
AVAILABLE == "available"
RESERVED == "reserved"
OCCUPIED == "occupied"
BLOCKED == "blocked"
MAINTENANCE == "maintenance"
SeatStatus == {AVAILABLE, RESERVED, OCCUPIED, BLOCKED, MAINTENANCE}

\* timedelta(minutes=15) in create_seat_reservation
ReservationTTL == 15
\* the step of the model's clock: just over one reservation lifetime
TickMinutes == ReservationTTL + 1

Role(u) == IF u = "admin" THEN "admin" ELSE "user"

Unset == "unset"

IdleSess == [pc |-> "idle", seat |-> MissingSeat, event |-> MissingEvent]

\* the reservations (by index) that are active for a seat/event pair
ActiveFor(s, e) ==
    {i \in 1..Len(reservations) :
        /\ reservations[i].seat = s
        /\ reservations[i].event = e
        /\ reservations[i].status \in {PENDING, CONFIRMED}}

\* a request ends (with an HTTP error or with 201); the slot becomes free again
Finish(q) == sess' = [sess EXCEPT ![q] = IdleSess]

\* create_seat_reservation, lines 35-58: the seat query with its two checks
\* (404 when the seat is missing, 400 when it is not AVAILABLE) and the event
\* query (404 when the event is missing; the events table never changes)
CreateSeatQuery(q, s, e) ==
    /\ sess[q].pc = "idle"
    /\ IF s \notin SeatIds \/ seatStatus[s] # AVAILABLE \/ e \notin EventIds
         THEN Finish(q)
         ELSE sess' = [sess EXCEPT ![q] =
                  [pc |-> "event_ok", seat |-> s, event |-> e]]
    /\ UNCHANGED <<seatStatus, reservations, now, outsideStore>>

\* lines 61-73: the query for an active reservation of the seat/event pair
\* (400 when one exists; scalar_one_or_none() raises when several rows match)
CreateExistingQuery(q) ==
    /\ sess[q].pc = "event_ok"
    /\ IF ActiveFor(sess[q].seat, sess[q].event) # {}
         THEN Finish(q)
         ELSE sess' = [sess EXCEPT ![q].pc = "checked"]
    /\ UNCHANGED <<seatStatus, reservations, now, outsideStore>>

\* lines 76-98: insert the reservation, set the seat RESERVED, commit (201).
\* u is the authenticated caller (user.user_id, first read at line 84).
CreateCommit(q, u) ==
    /\ sess[q].pc = "checked"
    /\ Len(reservations) < MaxReservations
    /\ reservations' = Append(reservations,
            [seat |-> sess[q].seat, event |-> sess[q].event, user |-> u,
             status |-> PENDING, expires_at |-> now + ReservationTTL])
    /\ seatStatus' = [seatStatus EXCEPT ![sess[q].seat] = RESERVED]
    /\ Finish(q)
    /\ UNCHANGED <<now, outsideStore>>

\* update_reservation, lines 212-222: the seat status that follows a status change
UpdateReservationEffect(r, old, new) ==
    IF old # new /\ new = CONFIRMED THEN OCCUPIED
    ELSE IF old # new /\ new \in {CANCELLED, EXPIRED} THEN AVAILABLE
    ELSE seatStatus[r.seat]

\* update_reservation, lines 173-228 (st: the status field of the body, or Unset)
update_reservation(u, rid, st) ==
    /\ rid \in 1..Len(reservations)
    /\ Role(u) = "admin" \/ reservations[rid].user = u
    /\ LET r == reservations[rid]
           old == r.status
           new == IF st = Unset THEN old ELSE st
       IN /\ reservations' = [reservations EXCEPT ![rid].status = new]
          /\ seatStatus' = [seatStatus EXCEPT ![r.seat] = UpdateReservationEffect(r, old, new)]
    /\ UNCHANGED <<now, sess, outsideStore>>

\* cancel_reservation, lines 231-280
cancel_reservation(u, rid) ==
    /\ rid \in 1..Len(reservations)
    /\ Role(u) = "admin" \/ reservations[rid].user = u
    /\ reservations[rid].status \notin {CANCELLED, EXPIRED}
    /\ reservations' = [reservations EXCEPT ![rid].status = CANCELLED]
    /\ seatStatus' = [seatStatus EXCEPT ![reservations[rid].seat] = AVAILABLE]
    /\ UNCHANGED <<now, sess, outsideStore>>

\* cleanup_expired_reservations, utility_routes.py lines 97-104
IsExpiredPending(r) == r.status = PENDING /\ r.expires_at < now

\* cleanup_expired_reservations without line 113: the seats stay RESERVED
cleanup_expired_reservations_KeepsSeat(u) ==
    /\ Role(u) = "admin"
    /\ reservations' = [i \in 1..Len(reservations) |->
            IF IsExpiredPending(reservations[i])
              THEN [reservations[i] EXCEPT !.status = EXPIRED]
              ELSE reservations[i]]
    /\ UNCHANGED <<seatStatus, now, sess, outsideStore>>

\* cleanup_expired_reservations, utility_routes.py lines 84-119
cleanup_expired_reservations(u) ==
    /\ Role(u) = "admin"
    /\ reservations' = [i \in 1..Len(reservations) |->
            IF IsExpiredPending(reservations[i])
              THEN [reservations[i] EXCEPT !.status = EXPIRED]
              ELSE reservations[i]]
    /\ seatStatus' = [s \in SeatIds |->
            IF \E i \in 1..Len(reservations) :
                   IsExpiredPending(reservations[i]) /\ reservations[i].seat = s
              THEN AVAILABLE ELSE seatStatus[s]]
    /\ UNCHANGED <<now, sess, outsideStore>>

\* the wall clock advances
Tick ==
    /\ now + TickMinutes <= MaxNow
    /\ now' = now + TickMinutes
    /\ UNCHANGED <<seatStatus, reservations, sess, outsideStore>>

NextStore ==
    \/ \E q \in Sessions, s \in RequestSeats, e \in EventIds \cup {MissingEvent} :
          CreateSeatQuery(q, s, e)
    \/ \E q \in Sessions : CreateExistingQuery(q)
    \/ \E q \in Sessions, u \in Users : CreateCommit(q, u)
    \/ \E u \in Callers, rid \in 1..MaxReservations, st \in ReservationStatus \cup {Unset} :
          update_reservation(u, rid, st)
    \/ \E u \in Callers, rid \in 1..MaxReservations : cancel_reservation(u, rid)
    \/ \E u \in Callers : cleanup_expired_reservations(u)
    \/ Tick

----------------------------------------------------------------------------
(* Part I-b: the saga Reserve step of the event service *)

\* models.py lines 303-346: the attributes of the mapped class SeatReservation
SeatReservationColumns ==
    {"id", "seat_id", "event_id", "reservation_id", "user_id", "status",
     "reserved_at", "expires_at", "confirmed_at", "cancelled_at",
     "reserved_price", "currency", "pricing_tier_id", "reservation_source",
     "special_requirements", "customer_notes", "internal_notes",
     "reservation_metadata", "status_changed_at", "status_changed_by",
     "cancellation_reason", "created_at", "updated_at",
     "seat", "event", "pricing_tier"}

\* models.py: the columns declared nullable=False without a default
SeatReservationRequired ==
    {"seat_id", "event_id", "reservation_id", "expires_at", "reserved_price"}

\* workflow_handler.py lines 81-86: the keyword arguments of the constructor call
HandlerReservationKwargs == {"seat_id", "user_id", "booking_reference", "status"}

\* The declarative constructor raises TypeError for a keyword that is not an
\* attribute of the class; the flush (triggered by the seat query of line 90)
\* raises IntegrityError when a NOT NULL column has no value.
ReservationInsertRaises(kwargs) ==
    \/ ~(kwargs \subseteq SeatReservationColumns)
    \/ ~(SeatReservationRequired \subseteq kwargs)

MaxItems == 2

\* the booking_items of a request: lists of seat ids
RECURSIVE SeqsUpTo(_, _)
SeqsUpTo(S, n) ==
    IF n = 0 THEN {<<>>}
    ELSE LET shorter == SeqsUpTo(S, n - 1)
         IN shorter \cup {Append(q, x) : q \in {t \in shorter : Len(t) = n - 1}, x \in S}

ItemLists == SeqsUpTo(SeatIds \cup {MissingSeat}, MaxItems)

IsSeat(s) == s \in SeatIds

\* handle_seat_reservation, workflow_handler.py lines 65-123
handle_seat_reservation(items) ==
    /\ LET raises == /\ items # <<>>
                     /\ \/ ReservationInsertRaises(HandlerReservationKwargs)
                        \/ \E i \in 1..Len(items) : ~IsSeat(items[i])   \* foreign key seats.id
           reserved == SelectSeq(items, IsSeat)
           added == [i \in 1..Len(items) |->
                       [seat |-> items[i], event |-> MissingEvent, user |-> "u1",
                        status |-> CONFIRMED, expires_at |-> 0]]
       IN IF raises
            THEN \* except branch: rollback, error response
                 /\ reserveOut' = [n |-> 1 - reserveOut.n, success |-> FALSE,
                                   items |-> items, reserved_seats |-> <<>>]
                 /\ UNCHANGED <<seatStatus, reservations>>
            ELSE \* every item: add a CONFIRMED reservation, mark the seat OCCUPIED; commit
                 /\ reservations' = reservations \o added
                 /\ seatStatus' = [s \in SeatIds |->
                       IF \E i \in 1..Len(items) : items[i] = s THEN OCCUPIED ELSE seatStatus[s]]
                 /\ reserveOut' = [n |-> 1 - reserveOut.n, success |-> TRUE,
                                   items |-> items, reserved_seats |-> reserved]
    /\ UNCHANGED outsideReserve

NextReserve == \E items \in ItemLists : handle_seat_reservation(items)

\* handle_seat_release, workflow_handler.py lines 125-151: for every seat id of
\* original_result.reserved_seats delete the reservations of that seat and set
\* the seat AVAILABLE; commit, and log the release for the workflow
handle_seat_release(workflow_id, reserved_seats) ==
    /\ releaseLog' = releaseLog \cup {workflow_id}
    /\ LET released == {reserved_seats[i] : i \in 1..Len(reserved_seats)}
           Kept(r) == r.seat \notin released
       IN /\ reservations' = SelectSeq(reservations, Kept)
          /\ seatStatus' = [s \in SeatIds |->
                              IF s \in released THEN AVAILABLE ELSE seatStatus[s]]
    /\ UNCHANGED <<reserveOut, now, sess, wmVars, bpVars, cbVars, rlVars, rrVars, mqVars, idVars,
                   ntVars, chVars, rtVars, sagaVars, ksVars, sgVars>>

\* the saga steps of the event service next to the reservation route
NextRelease ==
    \/ \E q \in Sessions, s \in RequestSeats, e \in EventIds \cup {MissingEvent} :
          CreateSeatQuery(q, s, e)
    \/ \E q \in Sessions : CreateExistingQuery(q)
    \/ \E q \in Sessions, u \in Users : CreateCommit(q, u)
    \/ \E items \in ItemLists : handle_seat_reservation(items)
    \/ \E w \in {"w1", "w2"}, reserved_seats \in ItemLists :
          handle_seat_release(w, reserved_seats)

----------------------------------------------------------------------------
(* Part II: WorkflowManager (shared/workflow_manager.py) *)

MaxResponses == 4

WorkflowIds == {"w1"}
UnknownWorkflow == "w_unknown"
UnknownStep == "no_such_step"
ResultVals == {"ra", "rb"}
NoValue == "None"

\* WorkflowStatus
W_INITIATED == "initiated"
W_IN_PROGRESS == "in_progress"
W_COMPLETED == "completed"
W_COMPENSATING == "compensating"
W_COMPENSATED == "compensated"
W_TIMEOUT == "timeout"

\* WorkflowStepStatus
ST_PENDING == "pending"
ST_COMPLETED == "completed"
ST_FAILED == "failed"

\* BookingWorkflowHandler._register_workflows
WorkflowDefinitions ==
    [booking_creation |->
        << [name |-> "validate_user", service |-> "user-service",
            event_type |-> "user.validate", timeout |-> 30],
           [name |-> "check_seat_availability", service |-> "event-service",
            event_type |-> "seats.check_availability", timeout |-> 30],
           [name |-> "create_payment_intent", service |-> "payment-service",
            event_type |-> "payment.create_intent", timeout |-> 30] >>,
     booking_confirmation |->
        << [name |-> "reserve_seats", service |-> "event-service",
            event_type |-> "seats.reserve", timeout |-> 30],
           [name |-> "process_payment", service |-> "payment-service",
            event_type |-> "payment.process", timeout |-> 60],
           [name |-> "send_confirmation", service |-> "user-service",
            event_type |-> "notification.send", timeout |-> 30] >>]

WorkflowTypes == DOMAIN WorkflowDefinitions

Def(w) == WorkflowDefinitions[wfType[w]]
NSteps(w) == Len(Def(w))
StepNames == {WorkflowDefinitions[t][k].name : t \in WorkflowTypes, k \in 1..3}

\* WorkflowStep.__init__
NewStep == [status |-> ST_PENDING, result |-> NoValue, error |-> NoValue, completed_at |-> 0]

\* Workflow.get_step: index of the first step with that name, 0 when there is none
get_step(w, name) ==
    LET hits == {k \in 1..NSteps(w) : Def(w)[k].name = name}
    IN IF hits = {} THEN 0 ELSE CHOOSE k \in hits : \A j \in hits : k <= j

\* Workflow.all_steps_completed / has_failed_steps, on a list of steps
all_steps_completed(st) == \A k \in 1..Len(st) : st[k].status = ST_COMPLETED
has_failed_steps(st) == \E k \in 1..Len(st) : st[k].status = ST_FAILED

\* publish_workflow_event: one publisher call per exchange the target selects
Exchanges == <<"user-service", "event-service", "booking-service", "payment-service">>

RECURSIVE PublishTo(_, _, _)
PublishTo(target, ev, i) ==
    IF i > Len(Exchanges) THEN <<>>
    ELSE (IF target = Exchanges[i] \/ target = "all"
            THEN << [ev EXCEPT !.exchange = Exchanges[i]] >> ELSE <<>>)
         \o PublishTo(target, ev, i + 1)

publish_workflow_event(target, ev) == PublishTo(target, ev, 1)

\* the three kinds of event the manager emits; etype = <<base, suffix>>
RequestEvent(w, k) ==
    [wf |-> w, exchange |-> "", etype |-> <<Def(w)[k].event_type, "">>,
     step |-> Def(w)[k].name, result |-> NoValue]
CompensationEvent(w, k, st) ==
    [wf |-> w, exchange |-> "", etype |-> <<Def(w)[k].event_type, "compensate">>,
     step |-> Def(w)[k].name, result |-> st[k].result]
CompletedEvent(w) ==
    [wf |-> w, exchange |-> "", etype |-> <<wfType[w], "completed">>,
     step |-> NoValue, result |-> NoValue]

\* handle_workflow_failure lines 191-194: the completed steps, last first
RECURSIVE ReversedCompleted(_, _)
ReversedCompleted(st, k) ==
    IF k = 0 THEN <<>>
    ELSE (IF st[k].status = ST_COMPLETED THEN <<k>> ELSE <<>>) \o ReversedCompleted(st, k - 1)

\* the compensation events of a list of step indices, in that order
RECURSIVE CompensationsOf(_, _, _)
CompensationsOf(w, todo, st) ==
    IF todo = <<>> THEN <<>>
    ELSE publish_workflow_event(Def(w)[Head(todo)].service, CompensationEvent(w, Head(todo), st))
         \o CompensationsOf(w, Tail(todo), st)

\* a status assignment is logged when it changes the value
Logged(log, s) == IF log # <<>> /\ log[Len(log)] = s THEN log ELSE Append(log, s)

\* SagaTransactionStatus, as far as the code assigns it
SAGA_STARTED == "started"
SAGA_IN_PROGRESS == "in_progress"

\* start_workflow up to the first suspension of execute_workflow: the instance
\* is created and registered, the timeout task is created, the status becomes
\* IN_PROGRESS and the request of the first step is published. The only
\* caller, start_booking_workflow (type booking_creation), has committed the
\* SagaTransaction row as STARTED before the call (lines 78-84).
start_workflow(w, t) ==
    /\ wfStatus[w] = "none"
    /\ wfType' = [wfType EXCEPT ![w] = t]
    /\ steps' = [steps EXCEPT ![w] = [k \in 1..Len(WorkflowDefinitions[t]) |-> NewStep]]
    /\ active' = active \cup {w}
    /\ timer' = [timer EXCEPT ![w] = "sleeping"]
    /\ wfStatus' = [wfStatus EXCEPT ![w] = W_IN_PROGRESS]
    /\ statusLog' = [statusLog EXCEPT ![w] = <<W_INITIATED, W_IN_PROGRESS>>]
    /\ published' = published \o
          publish_workflow_event(WorkflowDefinitions[t][1].service,
              [wf |-> w, exchange |-> "", etype |-> <<WorkflowDefinitions[t][1].event_type, "">>,
               step |-> WorkflowDefinitions[t][1].name, result |-> NoValue])
    /\ execIdx' = [execIdx EXCEPT ![w] = 2]
    /\ sagaRow' = [sagaRow EXCEPT ![w] = IF t = "booking_creation" THEN SAGA_STARTED ELSE @]
    /\ UNCHANGED <<timerTodo, nResp, lateDrop, storeVars, reserveVars, bpVars, cbVars, rlVars,
                   rrVars, mqVars, idVars, ntVars, chVars, rtVars, ksVars, sgVars, relVars>>

\* start_booking_workflow lines 107-112: start_workflow has returned (every
\* request is published); the row becomes IN_PROGRESS and is committed
start_booking_workflow_commit(w) ==
    /\ sagaRow[w] = SAGA_STARTED
    /\ execIdx[w] > NSteps(w)
    /\ sagaRow' = [sagaRow EXCEPT ![w] = SAGA_IN_PROGRESS]
    /\ UNCHANGED outsideSaga

\* execute_workflow lines 112-127: the next iteration of the loop; it runs on
\* the Workflow object whether or not the instance is still registered
execute_workflow(w) ==
    /\ wfStatus[w] # "none"
    /\ execIdx[w] <= NSteps(w)
    /\ steps' = [steps EXCEPT ![w][execIdx[w]].status = ST_PENDING]
    /\ published' = published \o
          publish_workflow_event(Def(w)[execIdx[w]].service, RequestEvent(w, execIdx[w]))
    /\ execIdx' = [execIdx EXCEPT ![w] = @ + 1]
    /\ UNCHANGED <<active, wfType, wfStatus, statusLog, timer, timerTodo, nResp, lateDrop,
                   outsideWM>>

\* a target service answers only requests that were published
Requested(w, name) ==
    \E i \in 1..Len(published) :
        /\ published[i].wf = w
        /\ published[i].step = name
        /\ published[i].etype[2] = ""

\* the completion handler without its clean-up (no del of the instance)
handle_workflow_completion_NoCleanup(w, st) ==
    /\ wfStatus' = [wfStatus EXCEPT ![w] = W_COMPLETED]
    /\ statusLog' = [statusLog EXCEPT ![w] = Logged(@, W_COMPLETED)]
    /\ timer' = [timer EXCEPT ![w] = IF @ \in {"sleeping", "compensating"} THEN "cancelled" ELSE @]
    /\ UNCHANGED timerTodo
    /\ published' = published \o publish_workflow_event("all", CompletedEvent(w))
    /\ UNCHANGED active

\* _handle_workflow_completion lines 161-183
handle_workflow_completion(w, st) ==
    /\ wfStatus' = [wfStatus EXCEPT ![w] = W_COMPLETED]
    /\ statusLog' = [statusLog EXCEPT ![w] = Logged(@, W_COMPLETED)]
    /\ timer' = [timer EXCEPT ![w] = IF @ \in {"sleeping", "compensating"} THEN "cancelled" ELSE @]
    /\ UNCHANGED timerTodo
    /\ published' = published \o publish_workflow_event("all", CompletedEvent(w))
    /\ active' = active \ {w}

\* handle_workflow_failure lines 185-207, run by the consumer task
handle_workflow_failure(w, st) ==
    /\ wfStatus' = [wfStatus EXCEPT ![w] = W_COMPENSATING]
    /\ statusLog' = [statusLog EXCEPT ![w] = Logged(@, W_COMPENSATING)]
    /\ published' = published \o CompensationsOf(w, ReversedCompleted(st, Len(st)), st)
    /\ UNCHANGED <<active, timer, timerTodo>>

\* the step record after a response, lines 146-149
RespondedStep(success, result, error) ==
    [status |-> IF success THEN ST_COMPLETED ELSE ST_FAILED,
     result |-> result, error |-> error, completed_at |-> nResp + 1]

\* handle_workflow_response lines 131-159.  The consumer takes one message at a
\* time (prefetch 1), so response handlers do not overlap each other.
handle_workflow_response(w, name, success, result, error) ==
    /\ nResp < MaxResponses
    /\ w \in WorkflowIds => /\ wfStatus[w] # "none"
                             /\ (name = UnknownStep \/ Requested(w, name))
    /\ nResp' = nResp + 1
    /\ UNCHANGED <<wfType, execIdx, outsideWM>>
    /\ IF w \notin active
         THEN /\ lateDrop' = lateDrop \cup {w}
              /\ UNCHANGED <<active, wfStatus, statusLog, steps, timer, timerTodo, published>>
         ELSE /\ UNCHANGED lateDrop
              /\ IF get_step(w, name) = 0
                   THEN UNCHANGED <<active, wfStatus, statusLog, steps, timer, timerTodo, published>>
                   ELSE LET st == [steps[w] EXCEPT ![get_step(w, name)] =
                                       RespondedStep(success, result, error)]
                        IN /\ steps' = [steps EXCEPT ![w] = st]
                           /\ IF has_failed_steps(st) THEN handle_workflow_failure(w, st)
                              ELSE IF all_steps_completed(st) THEN handle_workflow_completion(w, st)
                              ELSE UNCHANGED <<active, wfStatus, statusLog, timer, timerTodo, published>>

\* handle_workflow_timeout lines 209-218 up to the first suspension inside
\* handle_workflow_failure: the sleep is over; when the workflow is registered
\* and IN_PROGRESS the status becomes TIMEOUT, then COMPENSATING, and the
\* compensation of the last completed step is published
handle_workflow_timeout(w) ==
    /\ timer[w] = "sleeping"
    /\ IF w \in active /\ wfStatus[w] = W_IN_PROGRESS
         THEN LET todo == ReversedCompleted(steps[w], Len(steps[w])) IN
              /\ wfStatus' = [wfStatus EXCEPT ![w] = W_COMPENSATING]
              /\ statusLog' = [statusLog EXCEPT ![w] = Logged(Logged(@, W_TIMEOUT), W_COMPENSATING)]
              /\ IF todo = <<>>
                   THEN /\ timer' = [timer EXCEPT ![w] = "done"]
                        /\ UNCHANGED <<timerTodo, published>>
                   ELSE /\ published' = published \o CompensationsOf(w, <<Head(todo)>>, steps[w])
                        /\ timerTodo' = [timerTodo EXCEPT ![w] = Tail(todo)]
                        /\ timer' = [timer EXCEPT ![w] =
                                        IF Tail(todo) = <<>> THEN "done" ELSE "compensating"]
         ELSE /\ timer' = [timer EXCEPT ![w] = "done"]
              /\ UNCHANGED <<wfStatus, statusLog, timerTodo, published>>
    /\ UNCHANGED <<active, wfType, steps, execIdx, nResp, lateDrop, outsideWM>>

\* the timeout task resumes inside the loop of handle_workflow_failure
\* (lines 194-205) and publishes the next compensation
TimeoutCompensateNext(w) ==
    /\ timer[w] = "compensating"
    /\ published' = published \o CompensationsOf(w, <<Head(timerTodo[w])>>, steps[w])
    /\ timerTodo' = [timerTodo EXCEPT ![w] = Tail(@)]
    /\ timer' = [timer EXCEPT ![w] = IF Tail(timerTodo[w]) = <<>> THEN "done" ELSE "compensating"]
    /\ UNCHANGED <<active, wfType, wfStatus, statusLog, steps, execIdx, nResp, lateDrop, outsideWM>>

Deliver ==
    \E w \in WorkflowIds \cup {UnknownWorkflow}, name \in StepNames \cup {UnknownStep} :
        \/ \E r \in ResultVals : handle_workflow_response(w, name, TRUE, r, NoValue)
        \/ handle_workflow_response(w, name, FALSE, NoValue, "error")

NextWM ==
    \/ \E w \in WorkflowIds, t \in WorkflowTypes : start_workflow(w, t)
    \/ \E w \in WorkflowIds : execute_workflow(w)
    \/ Deliver
    \/ \E w \in WorkflowIds : handle_workflow_timeout(w)
    \/ \E w \in WorkflowIds : TimeoutCompensateNext(w)
    \/ \E w \in WorkflowIds : start_booking_workflow_commit(w)


----------------------------------------------------------------------------
(* Part III: the booking service and the payment service, coupled by the   *)
(* booking and payment events of the bus                                   *)

MaxPublished == 2
MaxRefunds == 2

BookingIds == {"b1"}
PaymentIds == {"p1", "p2"}
NoPayment == "None"

\* the statuses the booking code writes and reads
B_NONE == "none"
B_PENDING == "pending_payment"
B_CONFIRMED == "confirmed"
B_CANCELLED == "cancelled"
B_REFUNDED == "refunded"

\* the statuses the payment code writes and reads
P_NONE == "none"
P_PENDING == "pending"
P_PROCESSING == "processing"
P_COMPLETED == "completed"
P_FAILED == "failed"
P_REFUNDED == "refunded"

BookingTTL == 15

EventTypes == {"booking_initiated", "seat_reserved",
               "booking_created", "booking_confirmed", "booking_cancelled",
               "payment_initiated", "payment_completed", "payment_failed",
               "payment_refunded"}

NoBooking == [status |-> B_NONE, payment_id |-> NoPayment, expires_at |-> 0,
              was_confirmed |-> FALSE]
NoPaymentRow == [status |-> P_NONE, booking |-> "b1", refunds |-> 0]

Event(t, b, p, refund) == [etype |-> t, booking |-> b, payment |-> p, refund_required |-> refund]

\* EventPublisher: the event goes to the bus; consumers get it at least once
Publish(ev) ==
    /\ pubCount[ev.etype][ev.booking] < MaxPublished
    /\ bus' = bus \cup {ev}
    /\ pubCount' = [pubCount EXCEPT ![ev.etype][ev.booking] = @ + 1]

\* BookingWorkflowService.create_booking lines 20-73
create_booking(b) ==
    /\ bookings[b].status = B_NONE
    /\ bookings' = [bookings EXCEPT ![b] =
           [status |-> B_PENDING, payment_id |-> NoPayment,
            expires_at |-> now + BookingTTL, was_confirmed |-> FALSE]]
    /\ Publish(Event("booking_created", b, NoPayment, FALSE))
    /\ UNCHANGED <<payments, now, outsideBP>>

\* BookingWorkflowService.confirm_booking lines 75-130; a missing booking or
\* a status other than pending_payment raises, which the caller logs
confirm_booking(b, p) ==
    IF bookings[b].status = B_PENDING
      THEN /\ bookings' = [bookings EXCEPT ![b].status = B_CONFIRMED,
                                           ![b].payment_id = p,
                                           ![b].was_confirmed = TRUE]
           /\ Publish(Event("booking_confirmed", b, p, FALSE))
      ELSE UNCHANGED <<bookings, bus, pubCount>>

\* BookingWorkflowService.cancel_booking lines 132-180
cancel_booking(b) ==
    IF bookings[b].status = B_NONE
      THEN UNCHANGED <<bookings, bus, pubCount>>
      ELSE /\ bookings' = [bookings EXCEPT ![b].status = B_CANCELLED]
           /\ Publish(Event("booking_cancelled", b, bookings[b].payment_id,
                            bookings[b].status = B_CONFIRMED))

\* BookingServicePaymentHandler._handle_payment_completed lines 33-46
PaymentHandler_handle_payment_completed(ev) ==
    /\ ev.etype = "payment_completed"
    /\ confirm_booking(ev.booking, ev.payment)
    /\ UNCHANGED <<payments, now, outsideBP>>

\* BookingServicePaymentHandler._handle_payment_failed lines 48-61
PaymentHandler_handle_payment_failed(ev) ==
    /\ ev.etype = "payment_failed"
    /\ cancel_booking(ev.booking)
    /\ UNCHANGED <<payments, now, outsideBP>>

\* BookingServicePaymentHandler._handle_payment_refunded lines 63-75
PaymentHandler_handle_payment_refunded(ev) ==
    /\ ev.etype = "payment_refunded"
    /\ cancel_booking(ev.booking)
    /\ UNCHANGED <<payments, now, outsideBP>>

\* BookingServiceEventHandler.handle_payment_completed,
\* booking_service/event_handlers.py lines 48-67: publishes booking_confirmed
EventHandler_handle_payment_completed(ev) ==
    /\ ev.etype = "payment_completed"
    /\ Publish(Event("booking_confirmed", ev.booking, ev.payment, FALSE))
    /\ UNCHANGED <<bookings, payments, now, outsideBP>>

\* BookingServiceEventHandler.handle_payment_failed, lines 69-88
EventHandler_handle_payment_failed(ev) ==
    /\ ev.etype = "payment_failed"
    /\ Publish(Event("booking_cancelled", ev.booking, NoPayment, FALSE))
    /\ UNCHANGED <<bookings, payments, now, outsideBP>>

\* PUT /bookings/{id}/cancel, booking-service/routes/booking_routes.py lines 68-83
cancel_booking_route(b) ==
    /\ bookings[b].status = B_CONFIRMED
    /\ bookings' = [bookings EXCEPT ![b].status = B_CANCELLED]
    /\ UNCHANGED <<payments, bus, pubCount, now, outsideBP>>

\* PaymentWorkflowService.initiate_payment lines 20-61, called by
\* PaymentServiceBookingHandler._handle_booking_created (lines 31-55);
\* p is the uuid of the new row
PaymentHandler_handle_booking_created(ev, p) ==
    /\ ev.etype = "booking_created"
    /\ payments[p].status = P_NONE
    /\ payments' = [payments EXCEPT ![p] =
           [status |-> P_PENDING, booking |-> ev.booking, refunds |-> 0]]
    /\ Publish(Event("payment_initiated", ev.booking, p, FALSE))
    /\ UNCHANGED <<bookings, now, outsideBP>>

\* PaymentWorkflowService.complete_payment lines 63-107
complete_payment(p) ==
    /\ IF payments[p].status = P_PENDING
         THEN /\ payments' = [payments EXCEPT ![p].status = P_COMPLETED]
              /\ Publish(Event("payment_completed", payments[p].booking, p, FALSE))
         ELSE UNCHANGED <<payments, bus, pubCount>>
    /\ UNCHANGED <<bookings, now, outsideBP>>

\* PaymentWorkflowService.fail_payment lines 109-144
fail_payment(p) ==
    /\ IF payments[p].status # P_NONE
         THEN /\ payments' = [payments EXCEPT ![p].status = P_FAILED]
              /\ Publish(Event("payment_failed", payments[p].booking, p, FALSE))
         ELSE UNCHANGED <<payments, bus, pubCount>>
    /\ UNCHANGED <<bookings, now, outsideBP>>

\* process_refund without the status test of lines 158-159
process_refund_NoStatusTest(p, b) ==
    IF p \in PaymentIds
      THEN /\ payments' = [payments EXCEPT ![p].status = P_REFUNDED]
           /\ Publish(Event("payment_refunded", b, p, FALSE))
      ELSE UNCHANGED <<payments, bus, pubCount>>

\* PaymentWorkflowService.process_refund lines 146-185
process_refund(p, b) ==
    IF p \in PaymentIds /\ payments[p].status = P_COMPLETED
      THEN /\ payments' = [payments EXCEPT ![p].status = P_REFUNDED]
           /\ Publish(Event("payment_refunded", b, p, FALSE))
      ELSE UNCHANGED <<payments, bus, pubCount>>

\* PaymentServiceBookingHandler._handle_booking_cancelled lines 57-72
PaymentHandler_handle_booking_cancelled(ev) ==
    /\ ev.etype = "booking_cancelled"
    /\ IF ev.refund_required /\ ev.payment # NoPayment
         THEN process_refund(ev.payment, ev.booking)
         ELSE UNCHANGED <<payments, bus, pubCount>>
    /\ UNCHANGED <<bookings, now, outsideBP>>

\* POST /payments, payment_service/routes/payment_routes.py lines 36-87: the
\* row is inserted with the default status and payment_completed is published
create_payment(b, p) ==
    /\ payments[p].status = P_NONE
    /\ payments' = [payments EXCEPT ![p] =
           [status |-> P_PENDING, booking |-> b, refunds |-> 0]]
    /\ Publish(Event("payment_completed", b, p, FALSE))
    /\ UNCHANGED <<bookings, now, outsideBP>>

\* POST /refunds/payments/{id}/refund, refund_routes.py lines 14-36: a Refund
\* row is inserted; the payment row is not written
create_refund(p) ==
    /\ payments[p].status = P_COMPLETED
    /\ payments[p].refunds < MaxRefunds
    /\ payments' = [payments EXCEPT ![p].refunds = @ + 1]
    /\ UNCHANGED <<bookings, bus, pubCount, now, outsideBP>>

\* the wall clock of the booking service advances past the booking lifetime
BookingTick ==
    /\ now + TickMinutes <= MaxNow
    /\ now' = now + TickMinutes
    /\ UNCHANGED <<bookings, payments, bus, pubCount, outsideBP>>

NextBooking ==
    \/ \E b \in BookingIds : create_booking(b)
    \/ \E b \in BookingIds : cancel_booking_route(b)
    \/ \E ev \in bus : PaymentHandler_handle_payment_completed(ev)
    \/ \E ev \in bus : PaymentHandler_handle_payment_failed(ev)
    \/ \E ev \in bus : PaymentHandler_handle_payment_refunded(ev)
    \/ \E ev \in bus : EventHandler_handle_payment_completed(ev)
    \/ \E ev \in bus : EventHandler_handle_payment_failed(ev)
    \/ \E ev \in bus, p \in PaymentIds : PaymentHandler_handle_booking_created(ev, p)
    \/ \E ev \in bus : PaymentHandler_handle_booking_cancelled(ev)
    \/ \E p \in PaymentIds : complete_payment(p)
    \/ \E p \in PaymentIds : fail_payment(p)
    \/ \E b \in BookingIds, p \in PaymentIds : create_payment(b, p)
    \/ \E p \in PaymentIds : create_refund(p)
    \/ BookingTick

----------------------------------------------------------------------------
(* Part IV: the circuit breaker of the API gateway (middleware.py)         *)

MaxFailures == 6
MaxCbNow == 120

\* config.py line 23
CIRCUIT_BREAKER_FAILURE_THRESHOLD == 5
\* config.py line 24
CIRCUIT_BREAKER_TIMEOUT == 60

\* the wrapped calls that can be in flight together
Calls == {"c1", "c2"}

\* CircuitBreaker.call without the timeout test of line 54: an OPEN breaker
\* lets every call through as HALF_OPEN
CallEnter_NoTimeoutTest(c) ==
    /\ cbCalls[c] = "idle"
    /\ IF cbState = "OPEN"
         THEN /\ cbState' = "HALF_OPEN"
              /\ cbCalls' = [cbCalls EXCEPT ![c] = "probe"]
              /\ UNCHANGED cbAnswer
         ELSE /\ cbCalls' = [cbCalls EXCEPT ![c] = "running"]
              /\ UNCHANGED <<cbState, cbAnswer>>
    /\ UNCHANGED <<failure_count, last_failure_time, cbNow, streak, outsideCB>>

\* CircuitBreaker.call lines 53-60: the wrapper up to the await of line 63.
\* An OPEN breaker rejects the call (503) unless the timeout has elapsed,
\* and then becomes HALF_OPEN.
CallEnter(c) ==
    /\ cbCalls[c] = "idle"
    /\ IF cbState = "OPEN"
         THEN IF cbNow - last_failure_time > CIRCUIT_BREAKER_TIMEOUT
                THEN /\ cbState' = "HALF_OPEN"
                     /\ cbCalls' = [cbCalls EXCEPT ![c] = "probe"]
                     /\ UNCHANGED cbAnswer
                ELSE /\ cbAnswer' = [cbAnswer EXCEPT ![c] = "503"]
                     /\ UNCHANGED <<cbState, cbCalls>>
         ELSE /\ cbCalls' = [cbCalls EXCEPT ![c] = "running"]
              /\ UNCHANGED <<cbState, cbAnswer>>
    /\ UNCHANGED <<failure_count, last_failure_time, cbNow, streak, outsideCB>>

\* lines 63-67: the wrapped function returned
CallReturn(c) ==
    /\ cbCalls[c] # "idle"
    /\ cbCalls' = [cbCalls EXCEPT ![c] = "idle"]
    /\ IF cbState = "HALF_OPEN"
         THEN cbState' = "CLOSED" /\ failure_count' = 0
         ELSE UNCHANGED <<cbState, failure_count>>
    /\ streak' = 0
    /\ cbAnswer' = [cbAnswer EXCEPT ![c] = "result"]
    /\ UNCHANGED <<last_failure_time, cbNow, outsideCB>>

\* lines 68-75: the wrapped function raised
CallRaise(c) ==
    /\ cbCalls[c] # "idle"
    /\ failure_count < MaxFailures
    /\ cbCalls' = [cbCalls EXCEPT ![c] = "idle"]
    /\ failure_count' = failure_count + 1
    /\ last_failure_time' = cbNow
    /\ cbState' = IF failure_count + 1 >= CIRCUIT_BREAKER_FAILURE_THRESHOLD
                    THEN "OPEN" ELSE cbState
    /\ streak' = streak + 1
    /\ cbAnswer' = [cbAnswer EXCEPT ![c] = "raised"]
    /\ UNCHANGED <<cbNow, outsideCB>>

\* time.time() advances
CbTick ==
    /\ cbNow + (CIRCUIT_BREAKER_TIMEOUT \div 2) <= MaxCbNow
    /\ cbNow' = cbNow + (CIRCUIT_BREAKER_TIMEOUT \div 2)
    /\ UNCHANGED <<cbState, failure_count, last_failure_time, cbCalls, streak, cbAnswer,
                   outsideCB>>

NextCB ==
    \/ \E c \in Calls : CallEnter(c)
    \/ \E c \in Calls : CallReturn(c)
    \/ \E c \in Calls : CallRaise(c)
    \/ CbTick

----------------------------------------------------------------------------
(* Part V: the in-memory rate limiter of the API gateway (middleware.py)   *)

MaxRlNow == 120
\* the constructor's max_requests argument
max_requests == 3
\* config.py line 20: RATE_LIMIT_WINDOW
window_seconds == 60
RlTimes == {t \in 0..MaxRlNow : t % (window_seconds \div 2) = 0}

ClientIps == {"ip1", "ip2"}

\* lines 20-21: while client_requests and client_requests[0] <= now - window
RECURSIVE PopOld(_, _)
PopOld(q, t) ==
    IF q # <<>> /\ Head(q) <= t - window_seconds THEN PopOld(Tail(q), t) ELSE q

\* is_allowed with > in place of >= in the test of line 24
is_allowed_OffByOne(ip) ==
    LET client_requests == PopOld(requests[ip], rlNow) IN
    /\ IF Len(client_requests) > max_requests
         THEN /\ requests' = [requests EXCEPT ![ip] = client_requests]
              /\ rlAnswer' = [rlAnswer EXCEPT ![ip] = "refused"]
              /\ UNCHANGED rlLog
         ELSE /\ requests' = [requests EXCEPT ![ip] = Append(client_requests, rlNow)]
              /\ rlAnswer' = [rlAnswer EXCEPT ![ip] = "allowed"]
              /\ rlLog' = [rlLog EXCEPT ![ip][rlNow] = @ + 1]
    /\ UNCHANGED <<rlNow, outsideRL>>

\* RateLimiter.is_allowed lines 15-29
is_allowed(ip) ==
    LET client_requests == PopOld(requests[ip], rlNow) IN
    /\ IF Len(client_requests) >= max_requests
         THEN /\ requests' = [requests EXCEPT ![ip] = client_requests]
              /\ rlAnswer' = [rlAnswer EXCEPT ![ip] = "refused"]
              /\ UNCHANGED rlLog
         ELSE /\ requests' = [requests EXCEPT ![ip] = Append(client_requests, rlNow)]
              /\ rlAnswer' = [rlAnswer EXCEPT ![ip] = "allowed"]
              /\ rlLog' = [rlLog EXCEPT ![ip][rlNow] = @ + 1]
    /\ UNCHANGED <<rlNow, outsideRL>>

\* time.time() advances
RlTick ==
    /\ rlNow + (window_seconds \div 2) <= MaxRlNow
    /\ rlNow' = rlNow + (window_seconds \div 2)
    /\ UNCHANGED <<requests, rlLog, rlAnswer, outsideRL>>

NextRL ==
    \/ \E ip \in ClientIps : is_allowed(ip)
    \/ RlTick

----------------------------------------------------------------------------
(* Part VI: the Redis rate limiter of the API gateway (main.py), for the   *)
(* key of one client IP.  Every Redis command is one step; the commands of *)
(* the is_allowed invocations of the gateway processes that share the      *)
(* Redis server interleave, and so does the expiry of the key.             *)

MaxRrNow == 120
\* the limit argument of is_allowed
limit == 2
\* main.py line 128: setex(key, 60, 1)
KeyTTL == 60

GatewayRequests == {"r1", "r2"}

None == -1
NoExpiry == -1
NoKey == [exists |-> FALSE, val |-> 0, expires |-> NoExpiry]

\* Redis answers as if an expired key were absent
KeyLive ==
    /\ redisKey.exists
    /\ redisKey.expires = NoExpiry \/ rrNow < redisKey.expires

\* line 125: current = redis_client.get(key)
RedisGet(r) ==
    /\ rrPc[r] = "idle"
    /\ rrPc' = [rrPc EXCEPT ![r] = "got"]
    /\ current' = [current EXCEPT ![r] = IF KeyLive THEN redisKey.val ELSE None]
    /\ UNCHANGED <<rrNow, redisKey, rrAnswer, rrAdmitted, outsideRR>>

\* lines 127-129: the key was absent: setex(key, 60, 1)
RedisSetex(r) ==
    /\ rrPc[r] = "got"
    /\ current[r] = None
    /\ redisKey' = [exists |-> TRUE, val |-> 1, expires |-> rrNow + KeyTTL]
    /\ rrAdmitted' = IF KeyLive THEN rrAdmitted + 1 ELSE 1
    /\ rrAnswer' = [rrAnswer EXCEPT ![r] = "allowed"]
    /\ rrPc' = [rrPc EXCEPT ![r] = "idle"]
    /\ UNCHANGED <<rrNow, current, outsideRR>>

\* lines 131-132: the limit is reached
Refuse(r) ==
    /\ rrPc[r] = "got"
    /\ current[r] # None
    /\ current[r] >= limit
    /\ rrAnswer' = [rrAnswer EXCEPT ![r] = "refused"]
    /\ rrPc' = [rrPc EXCEPT ![r] = "idle"]
    /\ UNCHANGED <<rrNow, redisKey, current, rrAdmitted, outsideRR>>

\* lines 134-135: redis_client.incr(key); INCR of an absent key creates it
\* with value 1 and no expiry
RedisIncr(r) ==
    /\ rrPc[r] = "got"
    /\ current[r] # None
    /\ current[r] < limit
    /\ redisKey' = IF KeyLive
                      THEN [redisKey EXCEPT !.val = @ + 1]
                      ELSE [exists |-> TRUE, val |-> 1, expires |-> NoExpiry]
    /\ rrAdmitted' = IF KeyLive THEN rrAdmitted + 1 ELSE 1
    /\ rrAnswer' = [rrAnswer EXCEPT ![r] = "allowed"]
    /\ rrPc' = [rrPc EXCEPT ![r] = "idle"]
    /\ UNCHANGED <<rrNow, current, outsideRR>>

\* time passes on the Redis server
RrTick ==
    /\ rrNow + (KeyTTL \div 2) <= MaxRrNow
    /\ rrNow' = rrNow + (KeyTTL \div 2)
    /\ UNCHANGED <<redisKey, rrPc, current, rrAnswer, rrAdmitted, outsideRR>>

NextRR ==
    \/ \E r \in GatewayRequests : RedisGet(r)
    \/ \E r \in GatewayRequests : RedisSetex(r)
    \/ \E r \in GatewayRequests : Refuse(r)
    \/ \E r \in GatewayRequests : RedisIncr(r)
    \/ RrTick

----------------------------------------------------------------------------
(* Part VII: the booking service consuming payment_completed messages from *)
(* booking-service.queue (shared/rabbitmq_client.py, booking-service       *)
(* main.py and event_handlers/payment_event_handler.py)                    *)

MsgIds == {"m1", "m2"}

\* state: none (not published), ready (in the queue), acked, or rejected
\* (basic.reject without requeue; the queue of line 60 has no dead-letter
\* exchange, so the broker discards the message)
NoMsg == [state |-> "none", payment |-> NoPayment, outcome |-> "none"]

\* the payment service publishes payment_completed for booking b1; the
\* binding payment.* of lines 79-83 routes it to booking-service.queue
BusDeliver(m, p) ==
    /\ mq[m].state = "none"
    /\ mq' = [mq EXCEPT ![m] = [state |-> "ready", payment |-> p, outcome |-> "none"]]
    /\ UNCHANGED <<bpVars, now, outsideMQ>>

\* process_message (rabbitmq_client.py lines 130-137) with the callback
\* BookingServiceEventHandler.handle_payment_event (main.py lines 57-65):
\* confirm_booking raises unless the booking is pending_payment; lines 45-46
\* of the payment handler log the exception, so message.process() leaves
\* without one and acknowledges the message
process_message(m) ==
    /\ mq[m].state = "ready"
    /\ confirm_booking("b1", mq[m].payment)
    /\ mq' = [mq EXCEPT ![m].state = "acked",
                        ![m].outcome = IF bookings["b1"].status = B_PENDING
                                         THEN "handled" ELSE "failed"]
    /\ UNCHANGED <<payments, now, outsideMQ>>

\* process_message with the callback that lifespan registers (main.py line
\* 76): BaseEventHandler.handle_event gets the routing key as message_body,
\* BaseEvent(**message_body) raises, message.process() rejects the message
\* without requeue and line 137 logs the exception
process_message_handle_event(m) ==
    /\ mq[m].state = "ready"
    /\ mq' = [mq EXCEPT ![m].state = "rejected", ![m].outcome = "failed"]
    /\ UNCHANGED <<bpVars, now, outsideMQ>>

NextMQ ==
    \/ \E b \in BookingIds : create_booking(b)
    \/ \E b \in BookingIds : cancel_booking_route(b)
    \/ \E m \in MsgIds, p \in PaymentIds : BusDeliver(m, p)
    \/ \E m \in MsgIds : process_message(m)
    \/ \E m \in MsgIds : process_message_handle_event(m)

----------------------------------------------------------------------------
(* Part VIII: the event_id of published events (shared/rabbitmq_client.py  *)
(* and shared/event_publisher.py)                                          *)

MaxEvents == 4
MaxPubClock == 2

\* RabbitMQClient.publish_event lines 97-124, for an event_data with an
\* event_id of the caller, never used before (supplied = TRUE), or without
\* one: f"evt_{int(datetime.utcnow().timestamp())}"
RabbitMQClient_publish_event(supplied) ==
    /\ Len(pubLog) < MaxEvents
    /\ pubLog' = Append(pubLog, IF supplied THEN [kind |-> "caller", n |-> uuids + 1]
                                             ELSE [kind |-> "evt", n |-> pubClock])
    /\ uuids' = IF supplied THEN uuids + 1 ELSE uuids
    /\ UNCHANGED <<pubClock, outsideID>>

\* EventPublisher.publish_event lines 20-53: event_id = str(uuid.uuid4())
EventPublisher_publish_event ==
    /\ Len(pubLog) < MaxEvents
    /\ pubLog' = Append(pubLog, [kind |-> "uuid", n |-> uuids + 1])
    /\ uuids' = uuids + 1
    /\ UNCHANGED <<pubClock, outsideID>>

\* a second passes
PubTick ==
    /\ pubClock < MaxPubClock
    /\ pubClock' = pubClock + 1
    /\ UNCHANGED <<pubLog, uuids, outsideID>>

NextID ==
    \/ \E supplied \in BOOLEAN : RabbitMQClient_publish_event(supplied)
    \/ EventPublisher_publish_event
    \/ PubTick

----------------------------------------------------------------------------
(* Part IX: the user service turning booking events into notifications     *)
(* (user-service event_handlers/booking_event_handler.py and               *)
(* services/notification_service.py)                                       *)

MaxDeliveries == 2

\* the booking_confirmed and booking_cancelled events of the bus; event_id
\* is the id of the bus event
BookingEvents ==
    {[etype |-> t, event_id |-> <<t, u>>, user_id |-> u, booking_id |-> "b1"] :
        t \in {"booking_confirmed", "booking_cancelled"}, u \in {"u1", "u2"}}

NotificationType(ev) ==
    IF ev.etype = "booking_confirmed" THEN "booking_confirmation"
                                      ELSE "booking_cancellation"

\* NotificationService.send_booking_confirmation lines 19-59 and
\* send_booking_cancellation lines 61-101: a row with a new uuid is added
\* and committed; the event_id of the bus event is not among the arguments
send_booking_notification(user_id, booking_id, type) ==
    notifications' = Append(notifications,
        [id |-> Len(notifications) + 1, user_id |-> user_id, type |-> type,
         booking_id |-> booking_id, status |-> "pending"])

\* NotificationServiceBookingHandler.handle_booking_event lines 15-33 with
\* _handle_booking_confirmed (35-50) and _handle_booking_cancelled (52-67)
handle_booking_event(ev) ==
    /\ deliveries[ev] < MaxDeliveries
    /\ deliveries' = [deliveries EXCEPT ![ev] = @ + 1]
    /\ send_booking_notification(ev.user_id, ev.booking_id, NotificationType(ev))
    /\ UNCHANGED outsideNT

NextNT == \E ev \in BookingEvents : handle_booking_event(ev)

----------------------------------------------------------------------------
(* Part X: POST /bookings/create of booking_service and the handlers of    *)
(* the event, payment and booking services that react to booking.initiated *)

MaxTotal == 4
MaxPrice == 2
MaxQuantity == 2
MaxRequestItems == 2

\* BookingCreate.items: unit_price and quantity (gt=0) of every seat
RequestItems ==
    UNION {[1..n -> [unit_price : 1..MaxPrice, quantity : 1..MaxQuantity]] :
             n \in 1..MaxRequestItems}

NoRow == [status |-> "none", total_amount |-> 0, items |-> <<>>]

\* the seat.reserved event of the seat at position i of a booking
SeatEvent(b, i) ==
    [etype |-> "seat_reserved", booking |-> b, payment |-> NoPayment,
     refund_required |-> FALSE, seat |-> i]

\* create_booking lines 36-99 of booking_service/routes/booking_routes.py:
\* the booking row takes total_amount from the request, every item row gets
\* total_price = unit_price * quantity, and the transaction is committed
route_create_booking_commit(b, total_amount, items) ==
    /\ reqPc[b] = "idle"
    /\ stored' = [stored EXCEPT ![b] =
           [status |-> "pending", total_amount |-> total_amount,
            items |-> [i \in DOMAIN items |->
                         [unit_price |-> items[i].unit_price,
                          quantity |-> items[i].quantity,
                          total_price |-> items[i].unit_price * items[i].quantity]]]]
    /\ reqPc' = [reqPc EXCEPT ![b] = "committed"]
    /\ UNCHANGED <<seatsDone, payDone, bpVars, now, outsideCH>>

\* lines 102-113: publish_booking_initiated; when it raises, the exception
\* is logged and the request returns "initiated" all the same
route_create_booking_publish(b, ok) ==
    /\ reqPc[b] = "committed"
    /\ reqPc' = [reqPc EXCEPT ![b] = "done"]
    /\ IF ok THEN Publish(Event("booking_initiated", b, NoPayment, FALSE))
             ELSE UNCHANGED <<bus, pubCount>>
    /\ UNCHANGED <<stored, seatsDone, payDone, bookings, payments, now, outsideCH>>

\* EventServiceEventHandler.handle_booking_initiated lines 19-43: one
\* publish_seat_reserved per seat of the event, with an await after each
EventServiceHandler_handle_booking_initiated(b) ==
    /\ Event("booking_initiated", b, NoPayment, FALSE) \in bus
    /\ seatsDone[b] < Len(stored[b].items)
    /\ seatsDone' = [seatsDone EXCEPT ![b] = @ + 1]
    /\ Publish(SeatEvent(b, seatsDone[b] + 1))
    /\ UNCHANGED <<stored, reqPc, payDone, bookings, payments, now, outsideCH>>

\* PaymentServiceEventHandler.handle_booking_initiated lines 19-62:
\* process_payment succeeds or not, payment_id is pay_<booking_id>
PaymentServiceHandler_handle_booking_initiated(b, success) ==
    /\ Event("booking_initiated", b, NoPayment, FALSE) \in bus
    /\ ~payDone[b]
    /\ payDone' = [payDone EXCEPT ![b] = TRUE]
    /\ Publish(Event(IF success THEN "payment_completed" ELSE "payment_failed",
                     b, "pay_" \o b, FALSE))
    /\ UNCHANGED <<stored, reqPc, seatsDone, bookings, payments, now, outsideCH>>

NextCH ==
    \/ \E b \in BookingIds, total_amount \in 1..MaxTotal, items \in RequestItems :
          route_create_booking_commit(b, total_amount, items)
    \/ \E b \in BookingIds, ok \in BOOLEAN : route_create_booking_publish(b, ok)
    \/ \E b \in BookingIds : EventServiceHandler_handle_booking_initiated(b)
    \/ \E b \in BookingIds, success \in BOOLEAN :
          PaymentServiceHandler_handle_booking_initiated(b, success)
    \/ \E ev \in bus : EventHandler_handle_payment_completed(ev)
    \/ \E ev \in bus : EventHandler_handle_payment_failed(ev)

----------------------------------------------------------------------------
(* Part XI: routing of published messages (shared/rabbitmq_client.py) *)

\* a routing key and a binding pattern are sequences of words (the text
\* between the dots)

\* RabbitMQClient._setup_bindings: <<exchange, pattern>> of every service queue
bindings ==
    [s \in {"user-service", "event-service", "booking-service", "payment-service"} |->
        CASE s = "user-service" ->
                {<<"booking.events", <<"booking", "*">> >>,
                 <<"payment.events", <<"payment", "*">> >>}
          [] s = "event-service" ->
                {<<"user.events", <<"user", "*">> >>,
                 <<"booking.events", <<"booking", "*">> >>,
                 <<"payment.events", <<"payment", "*">> >>}
          [] s = "booking-service" ->
                {<<"user.events", <<"user", "*">> >>,
                 <<"event.events", <<"event", "*">> >>,
                 <<"payment.events", <<"payment", "*">> >>}
          [] s = "payment-service" ->
                {<<"booking.events", <<"booking", "*">> >>,
                 <<"event.events", <<"event", "*">> >>}]

\* topic exchange: "*" stands for exactly one word
TopicMatches(pattern, key) ==
    /\ Len(pattern) = Len(key)
    /\ \A i \in 1..Len(pattern) : pattern[i] \in {"*", key[i]}

\* the routing key a publish_<domain>_event call of the EventPublisher hands
\* to the broker for an event type: the type itself, or <domain>.<type>
PublisherKeys(domain, event_type) == {event_type, <<domain>> \o event_type}

\* RabbitMQClient.publish_event: the exchange copies the message into every
\* queue with a matching binding
publish_event(exchange_name, routing_key, event_data) ==
    LET m == [exchange |-> exchange_name, key |-> routing_key, data |-> event_data]
    IN /\ m \notin sent
       /\ sent' = sent \cup {m}
       /\ LET targets == {s \in DOMAIN bindings :
                            \E b \in bindings[s] :
                                b[1] = exchange_name /\ TopicMatches(b[2], routing_key)}
          IN /\ queues' = [s \in DOMAIN queues |->
                             IF s \in targets THEN queues[s] \cup {m} ELSE queues[s]]
             /\ delivered' = [s \in DOMAIN delivered |->
                             IF s \in targets THEN delivered[s] \cup {m} ELSE delivered[s]]
       /\ UNCHANGED outsideRT

\* EventWorkflowHandler.handle_seat_availability_check: the response goes out
\* through publish_booking_event
handle_seat_availability_check(workflow_id, all_available, key) ==
    /\ key \in PublisherKeys("booking", <<"seats", "check_availability_response">>)
    /\ publish_event("booking.events", key,
                     [workflow_id |-> workflow_id, step_name |-> "check_seat_availability",
                      success |-> all_available])

\* create_payment of payment-service/routes/payment_routes.py: announces the
\* payment through publish_payment_event("completed", ...)
route_create_payment(b, key) ==
    /\ key \in PublisherKeys("payment", <<"completed">>)
    /\ publish_event("payment.events", key, [booking_id |-> b])

\* RabbitMQClient.start_consuming: the consumer of a service takes a message
\* from its queue and settles it
start_consuming(service_name, m) ==
    /\ m \in queues[service_name]
    /\ queues' = [queues EXCEPT ![service_name] = @ \ {m}]
    /\ UNCHANGED <<delivered, sent, outsideRT>>

NextRT ==
    \/ \E w \in WorkflowIds \cup {UnknownWorkflow}, ok \in BOOLEAN,
          key \in {<<"seats", "check_availability_response">>,
                    <<"booking", "seats", "check_availability_response">>} :
          handle_seat_availability_check(w, ok, key)
    \/ \E b \in BookingIds, key \in {<<"completed">>, <<"payment", "completed">>} :
          route_create_payment(b, key)
    \/ \E s \in DOMAIN bindings : \E m \in queues[s] : start_consuming(s, m)

----------------------------------------------------------------------------
(* Part XII: the Kafka saga orchestrator (saga_orchestrator.py) *)

MaxSagaEvents == 5

SagaIds == {"k1"}
UnknownSaga == "k_unknown"

\* BookingTicketSaga._initialize_steps
initialize_steps ==
    << [step_id |-> "1", service |-> "user-service", command |-> "VALIDATE_USER",
        compensation_command |-> "NONE", status |-> "PENDING"],
       [step_id |-> "2", service |-> "event-service", command |-> "RESERVE_SEATS",
        compensation_command |-> "RELEASE_SEATS", status |-> "PENDING"],
       [step_id |-> "3", service |-> "booking-service", command |-> "CREATE_BOOKING",
        compensation_command |-> "CANCEL_BOOKING", status |-> "PENDING"],
       [step_id |-> "4", service |-> "payment-service", command |-> "PROCESS_PAYMENT",
        compensation_command |-> "REFUND_PAYMENT", status |-> "PENDING"] >>

\* _execute_next_step on a saga record: the saga afterwards, and the commands sent.
\* current_step counts from 0, sequences from 1.
execute_next_step(saga) ==
    IF saga.current_step >= Len(saga.steps)
      THEN [saga |-> [saga EXCEPT !.state = "COMPLETED"], sent |-> <<>>]
      ELSE LET step == saga.steps[saga.current_step + 1]
           IN [saga |-> [saga EXCEPT !.steps[saga.current_step + 1].status = "SENT"],
               sent |-> << [topic |-> step.service, saga_id |-> saga.saga_id,
                            step_id |-> step.step_id, command |-> step.command] >>]

\* _start_compensation: the loop from index i down to 0; an index beyond the
\* list (current_step was advanced past the end) raises IndexError in the first
\* iteration, before anything is sent
RECURSIVE start_compensation(_, _)
start_compensation(saga, i) ==
    IF i < 0 \/ i >= Len(saga.steps) THEN <<>>
    ELSE LET step == saga.steps[i + 1]
         IN (IF step.status = "SUCCESS" /\ step.compensation_command # "NONE"
               THEN << [topic |-> step.service, saga_id |-> saga.saga_id,
                        step_id |-> step.step_id, command |-> step.compensation_command] >>
               ELSE <<>>)
            \o start_compensation(saga, i - 1)

\* start_booking_saga
start_booking_saga(k) ==
    /\ k \notin DOMAIN sagas
    /\ LET new == [saga_id |-> k, state |-> "STARTED", steps |-> initialize_steps,
                   current_step |-> 0]
           r == execute_next_step(new)
       IN /\ sagas' = [x \in DOMAIN sagas \cup {k} |-> IF x = k THEN r.saga ELSE sagas[x]]
          /\ commands' = commands \o r.sent
    /\ UNCHANGED <<sagaEvents, outsideKS>>

\* handle_saga_event; sagaEvents records the events of known sagas
handle_saga_event(event) ==
    /\ Len(sagaEvents) < MaxSagaEvents
    /\ IF event.saga_id \notin DOMAIN sagas
         THEN UNCHANGED <<sagas, commands, sagaEvents>>
         ELSE LET saga == sagas[event.saga_id]
              IN /\ sagaEvents' = Append(sagaEvents, event)
                 /\ IF event.status = "SUCCESS"
                      THEN LET r == execute_next_step(
                                       [saga EXCEPT !.current_step = saga.current_step + 1])
                           IN /\ sagas' = [sagas EXCEPT ![event.saga_id] = r.saga]
                              /\ commands' = commands \o r.sent
                    ELSE IF event.status = "FAILED"
                      THEN /\ sagas' = [sagas EXCEPT ![event.saga_id].state = "COMPENSATING"]
                           /\ commands' = commands \o
                                  start_compensation(saga, saga.current_step - 1)
                    ELSE UNCHANGED <<sagas, commands>>
    /\ UNCHANGED outsideKS

NextKS ==
    \/ \E k \in SagaIds : start_booking_saga(k)
    \/ \E k \in SagaIds \cup {UnknownSaga}, step_id \in {"1", "2", "3", "4"},
          status \in {"SUCCESS", "FAILED"} :
          handle_saga_event([saga_id |-> k, step_id |-> step_id, status |-> status])

----------------------------------------------------------------------------
(* Part XIII: the in-process SagaOrchestrator (shared/event_handler.py) with *)
(* the booking_confirmation saga of booking_service/event_handlers.py      *)

\* setup_sagas: define_saga("booking_confirmation", steps, compensations)
saga_steps == <<"reserve_seats_step", "create_payment_step", "confirm_booking_step">>
compensation_steps ==
    <<"cancel_booking_compensation", "cancel_payment_compensation", "release_seats_compensation">>

\* execute_saga lines 75-76
execute_saga(c) ==
    /\ runs[c].pc = "idle"
    /\ runs' = [runs EXCEPT ![c].pc = "steps"]
    /\ UNCHANGED outsideSG

\* execute_saga lines 78-90: the next step of the loop returns (it is appended
\* to executed_steps; after the last one the saga returns True) or raises
\* (the except branch calls _compensate)
execute_saga_step(c, raises) ==
    /\ runs[c].pc = "steps"
    /\ LET n == Len(runs[c].executed_steps)
       IN IF raises
            THEN runs' = [runs EXCEPT ![c].pc = IF n = 0 THEN "failed" ELSE "compensate"]
            ELSE runs' = [runs EXCEPT
                     ![c].executed_steps = Append(@, saga_steps[n + 1]),
                     ![c].pc = IF n + 1 = Len(saga_steps) THEN "completed" ELSE "steps"]
    /\ UNCHANGED outsideSG

\* _compensate: one iteration of the loop over reversed(executed_steps); the
\* step itself is not used, only the index i; an exception of the
\* compensation is caught and logged
compensate(c) ==
    /\ runs[c].pc = "compensate"
    /\ runs' = [runs EXCEPT
           ![c].called = IF runs[c].i < Len(compensation_steps)
                           THEN Append(@, compensation_steps[runs[c].i + 1]) ELSE @,
           ![c].i = @ + 1,
           ![c].pc = IF runs[c].i + 1 = Len(runs[c].executed_steps)
                       THEN "failed" ELSE "compensate"]
    /\ UNCHANGED outsideSG

NextSG ==
    \/ \E c \in DOMAIN runs : execute_saga(c)
    \/ \E c \in DOMAIN runs, raises \in BOOLEAN : execute_saga_step(c, raises)
    \/ \E c \in DOMAIN runs : compensate(c)

----------------------------------------------------------------------------
(* Specifications *)

\* every seat AVAILABLE, no reservation, no request in flight, no workflow
Init ==
    /\ seatStatus = [s \in SeatIds |-> AVAILABLE]
    /\ reservations = <<>>
    /\ now = 0
    /\ sess = [q \in Sessions |-> IdleSess]
    /\ reserveOut = [n |-> 0, success |-> TRUE, items |-> <<>>, reserved_seats |-> <<>>]
    /\ active = {}
    /\ wfType = [w \in WorkflowIds |-> "booking_creation"]
    /\ wfStatus = [w \in WorkflowIds |-> "none"]
    /\ statusLog = [w \in WorkflowIds |-> <<>>]
    /\ steps = [w \in WorkflowIds |-> <<>>]
    /\ execIdx = [w \in WorkflowIds |-> 0]
    /\ timer = [w \in WorkflowIds |-> "none"]
    /\ timerTodo = [w \in WorkflowIds |-> <<>>]
    /\ published = <<>>
    /\ nResp = 0
    /\ lateDrop = {}
    /\ bookings = [b \in BookingIds |-> NoBooking]
    /\ payments = [p \in PaymentIds |-> NoPaymentRow]
    /\ bus = {}
    /\ pubCount = [t \in EventTypes |-> [b \in BookingIds |-> 0]]
    /\ cbState = "CLOSED"
    /\ failure_count = 0
    /\ last_failure_time = 0
    /\ cbNow = 0
    /\ cbCalls = [c \in Calls |-> "idle"]
    /\ streak = 0
    /\ cbAnswer = [c \in Calls |-> "none"]
    /\ rlNow = 0
    /\ requests = [ip \in ClientIps |-> <<>>]
    /\ rlLog = [ip \in ClientIps |-> [t \in RlTimes |-> 0]]
    /\ rlAnswer = [ip \in ClientIps |-> "none"]
    /\ rrNow = 0
    /\ redisKey = NoKey
    /\ rrPc = [r \in GatewayRequests |-> "idle"]
    /\ current = [r \in GatewayRequests |-> None]
    /\ rrAnswer = [r \in GatewayRequests |-> "none"]
    /\ rrAdmitted = 0
    /\ mq = [m \in MsgIds |-> NoMsg]
    /\ pubClock = 0
    /\ pubLog = <<>>
    /\ uuids = 0
    /\ notifications = <<>>
    /\ deliveries = [ev \in BookingEvents |-> 0]
    /\ stored = [b \in BookingIds |-> NoRow]
    /\ reqPc = [b \in BookingIds |-> "idle"]
    /\ seatsDone = [b \in BookingIds |-> 0]
    /\ payDone = [b \in BookingIds |-> FALSE]
    /\ queues = [s \in {"user-service", "event-service", "booking-service", "payment-service"} |-> {}]
    /\ delivered = [s \in {"user-service", "event-service", "booking-service", "payment-service"} |-> {}]
    /\ sent = {}
    /\ sagaRow = [w \in WorkflowIds |-> "none"]
    /\ sagas = [k \in {} |-> 0]
    /\ commands = <<>>
    /\ sagaEvents = <<>>
    /\ runs = [c \in {"c1", "c2"} |-> [pc |-> "idle", executed_steps |-> <<>>, i |-> 0, called |-> <<>>]]
    /\ releaseLog = {}

\* the seat rows the saga step can meet: any status the seat routes can set
InitReserve ==
    /\ seatStatus \in [SeatIds -> SeatStatus]
    /\ reservations = <<>>
    /\ now = 0
    /\ sess = [q \in Sessions |-> IdleSess]
    /\ reserveOut = [n |-> 0, success |-> TRUE, items |-> <<>>, reserved_seats |-> <<>>]
    /\ active = {}
    /\ wfType = [w \in WorkflowIds |-> "booking_creation"]
    /\ wfStatus = [w \in WorkflowIds |-> "none"]
    /\ statusLog = [w \in WorkflowIds |-> <<>>]
    /\ steps = [w \in WorkflowIds |-> <<>>]
    /\ execIdx = [w \in WorkflowIds |-> 0]
    /\ timer = [w \in WorkflowIds |-> "none"]
    /\ timerTodo = [w \in WorkflowIds |-> <<>>]
    /\ published = <<>>
    /\ nResp = 0
    /\ lateDrop = {}
    /\ bookings = [b \in BookingIds |-> NoBooking]
    /\ payments = [p \in PaymentIds |-> NoPaymentRow]
    /\ bus = {}
    /\ pubCount = [t \in EventTypes |-> [b \in BookingIds |-> 0]]
    /\ cbState = "CLOSED"
    /\ failure_count = 0
    /\ last_failure_time = 0
    /\ cbNow = 0
    /\ cbCalls = [c \in Calls |-> "idle"]
    /\ streak = 0
    /\ cbAnswer = [c \in Calls |-> "none"]
    /\ rlNow = 0
    /\ requests = [ip \in ClientIps |-> <<>>]
    /\ rlLog = [ip \in ClientIps |-> [t \in RlTimes |-> 0]]
    /\ rlAnswer = [ip \in ClientIps |-> "none"]
    /\ rrNow = 0
    /\ redisKey = NoKey
    /\ rrPc = [r \in GatewayRequests |-> "idle"]
    /\ current = [r \in GatewayRequests |-> None]
    /\ rrAnswer = [r \in GatewayRequests |-> "none"]
    /\ rrAdmitted = 0
    /\ mq = [m \in MsgIds |-> NoMsg]
    /\ pubClock = 0
    /\ pubLog = <<>>
    /\ uuids = 0
    /\ notifications = <<>>
    /\ deliveries = [ev \in BookingEvents |-> 0]
    /\ stored = [b \in BookingIds |-> NoRow]
    /\ reqPc = [b \in BookingIds |-> "idle"]
    /\ seatsDone = [b \in BookingIds |-> 0]
    /\ payDone = [b \in BookingIds |-> FALSE]
    /\ queues = [s \in {"user-service", "event-service", "booking-service", "payment-service"} |-> {}]
    /\ delivered = [s \in {"user-service", "event-service", "booking-service", "payment-service"} |-> {}]
    /\ sent = {}
    /\ sagaRow = [w \in WorkflowIds |-> "none"]
    /\ sagas = [k \in {} |-> 0]
    /\ commands = <<>>
    /\ sagaEvents = <<>>
    /\ runs = [c \in {"c1", "c2"} |-> [pc |-> "idle", executed_steps |-> <<>>, i |-> 0, called |-> <<>>]]
    /\ releaseLog = {}

SpecStore == Init /\ [][NextStore]_vars

SpecReserve == InitReserve /\ [][NextReserve]_vars

SpecRelease == Init /\ [][NextRelease]_vars

SpecWM == Init /\ [][NextWM]_vars

SpecBooking == Init /\ [][NextBooking]_vars

SpecCB == Init /\ [][NextCB]_vars

SpecRL == Init /\ [][NextRL]_vars

SpecRR == Init /\ [][NextRR]_vars

SpecMQ == Init /\ [][NextMQ]_vars

SpecID == Init /\ [][NextID]_vars

SpecNT == Init /\ [][NextNT]_vars

SpecCH == Init /\ [][NextCH]_vars

SpecRT == Init /\ [][NextRT]_vars

SpecKS == Init /\ [][NextKS]_vars

SpecSG == Init /\ [][NextSG]_vars


\* the scheduler runs every task that is ready: the loop of _execute_workflow
\* and the timeout task (whose sleep ends after 300 s) are not starved
FairSpecWM ==
    /\ SpecWM
    /\ \A w \in WorkflowIds : /\ WF_vars(execute_workflow(w))
                              /\ WF_vars(handle_workflow_timeout(w))
                              /\ WF_vars(TimeoutCompensateNext(w))

----------------------------------------------------------------------------
(* Claims *)

\* C1: every (seat_id, event_id) pair has at most one reservation whose
\* status is PENDING or CONFIRMED, in every reachable state of the store.
C1_OneActivePerSeatEvent ==
    \A s \in SeatIds, e \in EventIds : Cardinality(ActiveFor(s, e)) <= 1

\* C2: of two concurrent create_seat_reservation requests for the same seat
\* and event at most one creates a reservation: whenever a request inserts
\* its reservation, no other reservation of that seat and event is active
\* (so the seat ends RESERVED with exactly one PENDING reservation).
C2_ConcurrentCreateExclusive ==
    [][\A q \in Sessions :
          (sess[q].pc = "checked" /\ sess'[q].pc = "idle")
             => ActiveFor(sess[q].seat, sess[q].event) = {}]_vars

\* C3: the saga Reserve step is all-or-nothing: when some requested seat is
\* missing or not AVAILABLE the step reports failure and changes neither
\* the reservations nor any seat status; when every requested seat is
\* AVAILABLE the step reports success and every requested seat leaves
\* AVAILABLE with an active reservation.
C3_ReserveAllOrNothing ==
    [][reserveOut'.n # reserveOut.n =>
         LET items == reserveOut'.items
             allAvailable == \A i \in 1..Len(items) :
                                 items[i] \in SeatIds /\ seatStatus[items[i]] = AVAILABLE
         IN IF allAvailable
              THEN /\ reserveOut'.success
                   /\ \A i \in 1..Len(items) :
                         /\ seatStatus'[items[i]] # AVAILABLE
                         /\ \E j \in 1..Len(reservations') :
                               /\ reservations'[j].seat = items[i]
                               /\ reservations'[j].status \in {PENDING, CONFIRMED}
              ELSE /\ ~reserveOut'.success
                   /\ seatStatus' = seatStatus
                   /\ reservations' = reservations]_vars

\* C4: the request of step k+1 of a workflow is published only when step k
\* of that workflow is COMPLETED.
C4_RequestsSequential ==
    [][\A w \in WorkflowIds : \A k \in 2..3 :
          (/\ wfStatus[w] # "none"
           /\ ~Requested(w, Def(w)[k].name)
           /\ Requested(w, Def(w)[k].name)')
             => steps[w][k - 1].status = ST_COMPLETED]_vars

CompensationCount(w, name) ==
    Cardinality({i \in 1..Len(published) :
                    /\ published[i].wf = w
                    /\ published[i].step = name
                    /\ published[i].etype[2] = "compensate"})

\* C5: the compensation event of a step of a workflow is published at most once.
C5_CompensateAtMostOnce ==
    \A w \in WorkflowIds : \A name \in StepNames : CompensationCount(w, name) <= 1

FailedEventPublished(w) ==
    \E i \in 1..Len(published) : published[i].wf = w /\ published[i].etype[2] = "failed"

\* C6: a workflow with a failed step eventually is COMPENSATED: no step is
\* left COMPLETED, <type>.failed has been published and the instance is no
\* longer in the active set.
C6_FailureLeadsToCompensated ==
    \A w \in WorkflowIds :
        (wfStatus[w] # "none" /\ has_failed_steps(steps[w]))
           ~> (/\ wfStatus[w] = W_COMPENSATED
               /\ \A k \in 1..Len(steps[w]) : steps[w][k].status # ST_COMPLETED
               /\ FailedEventPublished(w)
               /\ w \notin active)

StepOutcome(st) == [k \in 1..Len(st) |->
                       [status |-> st[k].status, result |-> st[k].result, error |-> st[k].error]]

\* C7: only the first response to a step takes effect: the delivery of a
\* response that is not the first answer to a PENDING step changes the
\* status, result and error of no step, changes no workflow status and
\* publishes nothing (neither completion nor compensation).
C7_FirstResponseWins ==
    [][(/\ nResp' = nResp + 1
        /\ \A w \in WorkflowIds : \A k \in 1..Len(steps[w]) :
              steps[w][k].status = ST_PENDING => steps'[w][k].status = ST_PENDING)
          => /\ \A w \in WorkflowIds : StepOutcome(steps'[w]) = StepOutcome(steps[w])
             /\ wfStatus' = wfStatus
             /\ published' = published]_vars

NewlyPublished == SubSeq(published', Len(published) + 1, Len(published'))

\* C8: every compensation event is for a step whose status is COMPLETED,
\* and the compensation events of one run come in the reverse of the order
\* in which the steps completed (latest completed_at first).
C8_CompensationReverseCompletionOrder ==
    [][\A i \in 1..Len(NewlyPublished) :
          NewlyPublished[i].etype[2] = "compensate" =>
             LET w == NewlyPublished[i].wf
                 k == get_step(w, NewlyPublished[i].step)
             IN /\ steps'[w][k].status = ST_COMPLETED
                /\ \A j \in (i + 1)..Len(NewlyPublished) :
                      steps'[w][get_step(w, NewlyPublished[j].step)].completed_at
                         < steps'[w][k].completed_at
                /\ (nResp' = nResp) =>
                      \A j \in 1..Len(timerTodo'[w]) :
                         steps'[w][timerTodo'[w][j]].completed_at < steps'[w][k].completed_at]_vars

CompletedEvents(w) ==
    {i \in 1..Len(published) : published[i].wf = w /\ published[i].etype[2] = "completed"}

EventsOf(w) == SelectSeq(published, LAMBDA ev : ev.wf = w)

CompletedIsFinal(w) ==
    CompletedEvents(w) # {} =>
        /\ wfStatus[w] = W_COMPLETED
        /\ w \notin active
        /\ timer[w] \in {"cancelled", "done"}
        /\ Cardinality(CompletedEvents(w)) = Len(Exchanges)

\* C9: once the <type>.completed event of a workflow has been published the
\* workflow is COMPLETED, removed from the active set, its timeout task is
\* cancelled or over, the event went out once (to each exchange), and no
\* further event is ever published for that workflow.
C9_NoEventAfterCompleted ==
    [][\A w \in WorkflowIds :
          /\ CompletedIsFinal(w)'
          /\ CompletedEvents(w) # {} => EventsOf(w)' = EventsOf(w)]_vars

\* C9 witness: a response arrived for a workflow after it completed and was removed
C9_Witness ==
    \E w \in WorkflowIds : CompletedEvents(w) # {} /\ w \in lateDrop

TimerFires(w) == timer[w] = "sleeping" /\ timer'[w] \in {"done", "compensating"}

\* what the timeout does at the moment it fires
C10_AtFiring ==
    \A w \in WorkflowIds : TimerFires(w) =>
        IF w \in active /\ wfStatus[w] = W_IN_PROGRESS
          THEN /\ statusLog'[w] = statusLog[w] \o <<W_TIMEOUT, W_COMPENSATING>>
               /\ \A k \in 1..Len(steps[w]) :
                     steps[w][k].status = ST_COMPLETED =>
                        \/ CompensationCount(w, Def(w)[k].name)' = CompensationCount(w, Def(w)[k].name) + 1
                        \/ \E j \in 1..Len(timerTodo'[w]) : timerTodo'[w][j] = k
          ELSE /\ wfStatus' = wfStatus
               /\ statusLog' = statusLog
               /\ steps' = steps
               /\ published' = published

\* C10: when the timeout fires on a registered IN_PROGRESS workflow the status
\* becomes TIMEOUT (and then COMPENSATING) and the compensation event of every
\* step that is COMPLETED at that moment is emitted: none is left unpublished
\* when the timeout task is over.  When it fires in any other status, or after
\* the workflow was removed, no status changes and nothing is emitted.
C10_TimeoutCompensates ==
    [][/\ C10_AtFiring
       /\ \A w \in WorkflowIds :
             timer'[w] \in {"done", "cancelled"} => timerTodo'[w] = <<>>]_vars

\* the retry budget of a step (max attempts; three backoff delays are named)
MaxAttempts == 3

\* the number of times the request of a step was published
Attempts(w, name) ==
    Cardinality({i \in 1..Len(published) :
                    /\ published[i].wf = w
                    /\ published[i].step = name
                    /\ published[i].etype[2] = ""})

\* C11: when a failure response (every error of the model is retryable) is
\* taken for a step whose attempts are below max_attempts, the request of
\* that step is published again and compensation does not start (the status
\* stays, no compensation event goes out); attempts never exceed max_attempts.
C11_RetryBeforeCompensation ==
    [][\A w \in WorkflowIds : \A k \in 1..Len(steps[w]) :
          /\ Attempts(w, Def(w)[k].name)' <= MaxAttempts
          /\ (/\ nResp' = nResp + 1
              /\ steps'[w][k] # steps[w][k]
              /\ steps'[w][k].status = ST_FAILED
              /\ wfStatus[w] = W_IN_PROGRESS
              /\ Attempts(w, Def(w)[k].name) < MaxAttempts)
                => /\ Attempts(w, Def(w)[k].name)' = Attempts(w, Def(w)[k].name) + 1
                   /\ wfStatus'[w] = W_IN_PROGRESS
                   /\ \A i \in 1..Len(NewlyPublished) :
                         NewlyPublished[i].etype[2] # "compensate"]_vars

\* a payment_completed event is delivered to the booking service
PaymentCompletedDelivered(ev) ==
    \/ PaymentHandler_handle_payment_completed(ev)
    \/ EventHandler_handle_payment_completed(ev)

\* C12: the delivery of payment_completed to a pending booking confirms it
\* and publishes booking_confirmed once; a further delivery for the same
\* booking changes no booking field and publishes no event.
C12_PaymentCompletedIdempotent ==
    [][\A ev \in bus :
          (PaymentCompletedDelivered(ev) /\ bookings[ev.booking].status # B_NONE) =>
             IF bookings[ev.booking].status = B_PENDING
               THEN /\ bookings'[ev.booking].status = B_CONFIRMED
                    /\ pubCount'["booking_confirmed"][ev.booking] = 1
               ELSE /\ bookings' = bookings
                    /\ pubCount' = pubCount]_vars

\* a payment event is delivered to BookingServicePaymentHandler
PaymentEventHandled(ev) ==
    \/ PaymentHandler_handle_payment_completed(ev)
    \/ PaymentHandler_handle_payment_failed(ev)
    \/ PaymentHandler_handle_payment_refunded(ev)

\* C13: the booking status changes that payment events cause follow the
\* state table: payment_completed confirms and payment_failed cancels a
\* booking only when it is pending; a payment_completed or payment_failed
\* event delivered to a booking in any other status, and a payment_refunded
\* event delivered to a booking that is not cancelled, leaves the booking
\* unchanged and publishes nothing.
C13_BookingTransitionsFollowTable ==
    [][\A ev \in bus : PaymentEventHandled(ev) =>
          LET old == bookings[ev.booking].status
              new == bookings'[ev.booking].status
          IN /\ (new = B_CONFIRMED /\ old # B_CONFIRMED)
                   => (old = B_PENDING /\ ev.etype = "payment_completed")
             /\ (ev.etype = "payment_failed" /\ new = B_CANCELLED /\ old # B_CANCELLED)
                   => old = B_PENDING
             /\ (\/ ev.etype \in {"payment_completed", "payment_failed"} /\ old # B_PENDING
                 \/ ev.etype = "payment_refunded" /\ old # B_CANCELLED)
                   => (bookings' = bookings /\ pubCount' = pubCount)]_vars

\* C14: when payment_refunded is delivered for a booking that is cancelled
\* and had been confirmed before, the booking becomes REFUNDED and no
\* booking event is published.
C14_RefundedAfterCancel ==
    [][\A ev \in bus :
          (/\ PaymentHandler_handle_payment_refunded(ev)
           /\ bookings[ev.booking].status = B_CANCELLED
           /\ bookings[ev.booking].was_confirmed)
             => /\ bookings'[ev.booking].status = B_REFUNDED
                /\ pubCount' = pubCount]_vars

\* Booking.is_expired, models.py lines 56-58
IsExpiredBooking(b) == now > bookings[b].expires_at

\* C15: a pending booking whose expiry time has passed is never moved to
\* CONFIRMED: no step takes an expired pending booking to confirmed.
C15_ExpiredNeverConfirmed ==
    [][\A b \in BookingIds :
          (bookings[b].status = B_PENDING /\ IsExpiredBooking(b))
             => bookings'[b].status # B_CONFIRMED]_vars

\* C16: every confirmed booking has a payment with its booking_id whose
\* status is COMPLETED, in every reachable state of the two services.
C16_ConfirmedHasCompletedPayment ==
    \A b \in BookingIds :
        bookings[b].status = B_CONFIRMED =>
            \E p \in PaymentIds : payments[p].booking = b /\ payments[p].status = P_COMPLETED

\* the payment state machine: forward along pending, processing, then
\* completed or failed; refunded only from completed
AllowedPaymentStep(old, new) ==
    \/ old = P_PENDING /\ new \in {P_PROCESSING, P_COMPLETED, P_FAILED}
    \/ old = P_PROCESSING /\ new \in {P_COMPLETED, P_FAILED}
    \/ old = P_COMPLETED /\ new = P_REFUNDED

\* C17: the status of an existing payment changes only along the payment
\* state machine, and complete_payment and fail_payment applied to a
\* payment that is COMPLETED, FAILED or REFUNDED change no payment and
\* publish nothing.
C17_PaymentTransitions ==
    [][\A p \in PaymentIds :
          /\ (payments[p].status # P_NONE /\ payments'[p].status # payments[p].status)
                => AllowedPaymentStep(payments[p].status, payments'[p].status)
          /\ ((complete_payment(p) \/ fail_payment(p))
                 /\ payments[p].status \in {P_COMPLETED, P_FAILED, P_REFUNDED})
                => (payments' = payments /\ pubCount' = pubCount)]_vars

\* the refunds made of a payment: its Refund rows and the refund that set
\* its status
RefundCount(p) == payments[p].refunds + (IF payments[p].status = P_REFUNDED THEN 1 ELSE 0)

\* C18: a payment becomes REFUNDED, and payment_refunded is published, only
\* when the payment is COMPLETED; a refund asked for a payment in any other
\* status leaves the payments unchanged and publishes nothing; every payment
\* is refunded at most once.
C18_RefundOnlyCompletedOnce ==
    [][/\ \A p \in PaymentIds :
            /\ (payments'[p].status = P_REFUNDED /\ payments[p].status # P_REFUNDED)
                  => payments[p].status = P_COMPLETED
            /\ RefundCount(p)' <= 1
       /\ \A b \in BookingIds :
            pubCount'["payment_refunded"][b] # pubCount["payment_refunded"][b]
               => \E p \in PaymentIds : /\ payments[p].status = P_COMPLETED
                                         /\ payments'[p].status = P_REFUNDED
       /\ \A ev \in bus :
            (/\ PaymentHandler_handle_booking_cancelled(ev)
             /\ ev.payment \in PaymentIds
             /\ payments[ev.payment].status # P_COMPLETED)
               => (payments' = payments /\ pubCount' = pubCount)]_vars

\* C19: the breaker goes from CLOSED to OPEN only when failure_threshold
\* calls in a row have failed, with no successful call between them.
C19_OpensOnConsecutiveFailures ==
    [][(cbState = "CLOSED" /\ cbState' = "OPEN")
          => streak' >= CIRCUIT_BREAKER_FAILURE_THRESHOLD]_vars

\* C20: an OPEN breaker lets a call through, as HALF_OPEN, only when the
\* timeout has elapsed since the last failure; when that call succeeds the
\* breaker becomes CLOSED with failure_count 0, and when it fails the
\* breaker becomes OPEN again.
C20_HalfOpenProbe ==
    [][\A c \in Calls :
          /\ (cbState = "OPEN" /\ cbCalls[c] = "idle" /\ cbCalls'[c] # "idle")
                => /\ cbNow - last_failure_time > CIRCUIT_BREAKER_TIMEOUT
                   /\ cbState' = "HALF_OPEN"
          /\ (cbCalls[c] = "probe" /\ CallReturn(c))
                => (cbState' = "CLOSED" /\ failure_count' = 0)
          /\ (cbCalls[c] = "probe" /\ CallRaise(c))
                => cbState' = "OPEN"]_vars

\* C21: while the breaker is OPEN and the timeout has not elapsed since the
\* last failure, a call is answered with 503, the wrapped function is not
\* invoked, and state, failure_count and last_failure_time stay as they are.
C21_OpenRejectsUnchanged ==
    [][\A c \in Calls :
          (/\ cbState = "OPEN"
           /\ cbNow - last_failure_time <= CIRCUIT_BREAKER_TIMEOUT
           /\ CallEnter(c))
             => /\ cbAnswer'[c] = "503"
                /\ cbCalls'[c] = "idle"
                /\ UNCHANGED <<cbState, failure_count, last_failure_time>>]_vars

\* a call was answered 503 by a breaker that is still OPEN within its timeout
C21_Witness ==
    /\ cbState = "OPEN"
    /\ cbNow - last_failure_time <= CIRCUIT_BREAKER_TIMEOUT
    /\ \E c \in Calls : cbAnswer[c] = "503"

\* the requests of a client admitted within the last window_seconds
RECURSIVE SumLog(_, _)
SumLog(f, S) ==
    IF S = {} THEN 0
    ELSE LET t == CHOOSE x \in S : TRUE IN f[t] + SumLog(f, S \ {t})

AdmittedInWindow(ip) ==
    SumLog(rlLog[ip], {t \in RlTimes : t > rlNow - window_seconds})

\* C22: the in-memory rate limiter admits a request of a client exactly when
\* fewer than max_requests admitted requests of that client lie within the
\* last window_seconds; a refused request is not counted, and the other
\* clients are not affected.
C22_SlidingWindow ==
    [][\A ip \in ClientIps :
          is_allowed(ip)
            => /\ rlAnswer'[ip] = "allowed" <=> AdmittedInWindow(ip) < max_requests
               /\ rlAnswer'[ip] = "refused" <=> AdmittedInWindow(ip) >= max_requests
               /\ rlAnswer'[ip] = "refused" => Len(requests'[ip]) <= Len(requests[ip])
               /\ \A other \in ClientIps \ {ip} : requests'[other] = requests[other]]_vars

\* a client that was refused when its window was full is admitted again
\* after the window has rolled
C22_Witness ==
    \E ip \in ClientIps :
        /\ rlAnswer[ip] = "allowed"
        /\ SumLog(rlLog[ip], RlTimes) > max_requests
        /\ Len(requests[ip]) = max_requests
        /\ Head(requests[ip]) = rlNow

\* C23: with the Redis rate limiter, whatever the interleaving of the
\* concurrent requests of one client IP, at most limit requests are
\* admitted within one window of the counter key.
C23_AtMostLimitPerWindow == rrAdmitted <= limit

\* C24: the counter key never exists without an expiry time, so a refused
\* client is admitted again once the window has elapsed.
C24_KeyAlwaysExpires == KeyLive => redisKey.expires # NoExpiry

\* C25: when the handler of a message fails, the message stays in the queue
\* for redelivery or is dead-lettered: it is never taken out of the queue
\* with the booking left as it was.
C25_FailedHandlerNacks ==
    [][\A m \in MsgIds :
          (mq[m].state = "ready" /\ mq'[m].outcome = "failed")
            => mq'[m].state \in {"ready", "dead_lettered"}]_vars

\* C26: any two distinct published events carry different event_id values,
\* also when RabbitMQClient.publish_event fills in the id of two events
\* within the same second.
C26_EventIdsUnique ==
    \A i, j \in 1..Len(pubLog) : i # j => pubLog[i] # pubLog[j]

\* the notifications that a booking event has produced for its user
NotificationsFor(ev) ==
    {i \in 1..Len(notifications) :
        /\ notifications[i].user_id = ev.user_id
        /\ notifications[i].booking_id = ev.booking_id
        /\ notifications[i].type = NotificationType(ev)}

\* C27: a booking_confirmed or booking_cancelled event that the user service
\* has received, once or twice, has produced exactly one notification for
\* its user.
C27_OneNotificationPerEvent ==
    \A ev \in BookingEvents :
        deliveries[ev] >= 1 => Cardinality(NotificationsFor(ev)) = 1

\* the sum over the items of a stored booking of unit_price * quantity
RECURSIVE ItemsTotal(_)
ItemsTotal(items) ==
    IF items = <<>> THEN 0
    ELSE Head(items).unit_price * Head(items).quantity + ItemsTotal(Tail(items))

\* C28: every stored booking has a total_amount equal to the sum over its
\* items of unit_price * quantity; a request whose total differs is not
\* persisted.
C28_TotalEqualsItems ==
    \A b \in BookingIds :
        stored[b].status # "none" => stored[b].total_amount = ItemsTotal(stored[b].items)

\* C29: a booking that create_booking has committed is not left without its
\* booking.initiated event: the route keeps no outbox and schedules no retry,
\* so once the request has returned the event is on the bus.
C29_CommittedIsAnnounced ==
    \A b \in BookingIds :
        (stored[b].status # "none" /\ reqPc[b] = "done")
          => Event("booking_initiated", b, NoPayment, FALSE) \in bus

\* every seat of the booking has been reported reserved on the bus
AllSeatsReserved(b) ==
    \A i \in DOMAIN stored[b].items : SeatEvent(b, i) \in bus

\* the events of a type published for a booking
EventsOfType(t, b) == {ev \in bus : ev.etype = t /\ ev.booking = b}

\* C30: for each booking, payment.completed and then booking.confirmed are
\* published only after seat.reserved has been published for every item.
C30_SeatsBeforeConfirmation ==
    [][\A b \in BookingIds :
          /\ (EventsOfType("payment_completed", b) = {}
               /\ EventsOfType("payment_completed", b)' # {}) => AllSeatsReserved(b)
          /\ (EventsOfType("booking_confirmed", b) = {}
               /\ EventsOfType("booking_confirmed", b)' # {}) => AllSeatsReserved(b)]_vars

\* C31: the expiry sweep marks every PENDING reservation whose expiry time
\* has passed EXPIRED and frees its seat; a reservation request for a free
\* seat without active reservation then passes both checks, and its commit
\* leaves the old reservation EXPIRED and the seat RESERVED with exactly one
\* PENDING reservation (the new one) for the seat and event.
C31_ReserveAfterSweep ==
    [][/\ \A u \in Callers :
             cleanup_expired_reservations(u)
               => \A i \in 1..Len(reservations) :
                     IsExpiredPending(reservations[i])
                       => /\ reservations'[i].status = EXPIRED
                          /\ seatStatus'[reservations[i].seat] = AVAILABLE
       /\ \A q \in Sessions, s \in SeatIds, e \in EventIds :
             (CreateSeatQuery(q, s, e) /\ seatStatus[s] = AVAILABLE)
               => sess'[q].pc = "event_ok"
       /\ \A q \in Sessions :
             (CreateExistingQuery(q) /\ ActiveFor(sess[q].seat, sess[q].event) = {})
               => sess'[q].pc = "checked"
       /\ \A q \in Sessions, u \in Users :
             (/\ CreateCommit(q, u)
              /\ seatStatus[sess[q].seat] = AVAILABLE
              /\ ActiveFor(sess[q].seat, sess[q].event) = {})
               => /\ seatStatus'[sess[q].seat] = RESERVED
                  /\ \A i \in 1..Len(reservations) :
                        reservations'[i] = reservations[i]
                  /\ {i \in 1..Len(reservations') :
                         /\ reservations'[i].seat = sess[q].seat
                         /\ reservations'[i].event = sess[q].event
                         /\ reservations'[i].status = PENDING}
                       = {Len(reservations')}]_vars

\* a seat whose first reservation expired was reserved again
C31_Witness ==
    \E i, j \in 1..Len(reservations) :
        /\ i < j
        /\ reservations[i].seat = reservations[j].seat
        /\ reservations[i].event = reservations[j].event
        /\ reservations[i].status = EXPIRED
        /\ reservations[i].expires_at < now
        /\ reservations[j].status = PENDING
        /\ reservations[j].expires_at = now + ReservationTTL
        /\ seatStatus[reservations[j].seat] = RESERVED

\* C32: a reservation that the sweep marked EXPIRED, or that is still
\* PENDING with its expiry time passed, cannot be confirmed: no step makes
\* it CONFIRMED.
C32_ExpiredNotConfirmed ==
    [][\A i \in 1..Len(reservations) :
          (\/ reservations[i].status = EXPIRED
           \/ IsExpiredPending(reservations[i]))
            => reservations'[i].status # CONFIRMED]_vars

\* C33: every step response published on the booking.events exchange has
\* been put into the queue of the booking service.
C33_ResponseReachesBookingQueue ==
    \A m \in sent :
        (m.exchange = "booking.events" /\ m.key[Len(m.key)] = "check_availability_response")
          => m \in delivered["booking-service"]

\* C34: the SagaTransaction row follows the workflow: a row recorded as
\* IN_PROGRESS belongs to a workflow whose status is IN_PROGRESS (no workflow
\* that completed, timed out or is compensating is still recorded so).
C34_SagaRowFollowsWorkflow ==
    \A w \in WorkflowIds :
        sagaRow[w] = SAGA_IN_PROGRESS => wfStatus[w] = W_IN_PROGRESS

\* the compensation commands due when the step at index k (from 0) fails after
\* the steps before it succeeded: one per earlier step with a compensation,
\* in descending step order
CompensationsDue(saga, k) ==
    [i \in 1..Cardinality({j \in 1..k : saga.steps[j].compensation_command # "NONE"}) |->
        LET j == CHOOSE j \in 1..k :
                    /\ saga.steps[j].compensation_command # "NONE"
                    /\ Cardinality({h \in (j + 1)..k :
                                      saga.steps[h].compensation_command # "NONE"}) = i - 1
        IN [topic |-> saga.steps[j].service, saga_id |-> saga.saga_id,
            step_id |-> saga.steps[j].step_id,
            command |-> saga.steps[j].compensation_command]]

\* the saga events handled so far are the SUCCESS events of steps 1, 2, ... in order
InOrderSoFar(k) ==
    \A i \in 1..Len(sagaEvents) :
        /\ sagaEvents[i].saga_id = k
        /\ sagaEvents[i].status = "SUCCESS"
        /\ sagaEvents[i].step_id = initialize_steps[i].step_id

\* C35: when the FAILED event of the awaited step arrives after the earlier
\* steps succeeded in order, the orchestrator sends exactly one compensation
\* command for every earlier step that has one, in descending step order.
C35_CompensatesEarlierSteps ==
    [][\A k \in SagaIds, step_id \in {"1", "2", "3", "4"} :
          (/\ handle_saga_event([saga_id |-> k, step_id |-> step_id, status |-> "FAILED"])
           /\ k \in DOMAIN sagas
           /\ Len(sagaEvents) < Len(initialize_steps)
           /\ InOrderSoFar(k)
           /\ step_id = initialize_steps[Len(sagaEvents) + 1].step_id)
            => commands' = commands \o CompensationsDue(sagas[k], Len(sagaEvents))]_vars

\* C36: a SUCCESS event for a step other than the awaited one, and any event
\* for a saga that is COMPLETED or COMPENSATING, neither advances
\* current_step nor sends a command.
C36_OnlyAwaitedSuccessAdvances ==
    [][\A k \in SagaIds, step_id \in {"1", "2", "3", "4"}, status \in {"SUCCESS", "FAILED"} :
          (/\ handle_saga_event([saga_id |-> k, step_id |-> step_id, status |-> status])
           /\ k \in DOMAIN sagas
           /\ \/ sagas[k].state \in {"COMPLETED", "COMPENSATING"}
              \/ /\ status = "SUCCESS"
                 /\ \/ sagas[k].current_step >= Len(sagas[k].steps)
                    \/ step_id # sagas[k].steps[sagas[k].current_step + 1].step_id)
            => /\ sagas'[k].current_step = sagas[k].current_step
               /\ commands' = commands]_vars

\* the compensation that undoes a step of the booking_confirmation saga
CompensationOf(step) ==
    CASE step = "reserve_seats_step" -> "release_seats_compensation"
      [] step = "create_payment_step" -> "cancel_payment_compensation"
      [] step = "confirm_booking_step" -> "cancel_booking_compensation"

\* C37: when a step of execute_saga raised and the saga has returned, the
\* compensations called are exactly those of the executed steps, once each,
\* in reverse order of execution (after reserve_seats_step alone:
\* release_seats_compensation only).
C37_CompensatesExecutedInReverse ==
    \A c \in DOMAIN runs :
        runs[c].pc = "failed"
          => LET n == Len(runs[c].executed_steps)
             IN runs[c].called =
                  [j \in 1..n |-> CompensationOf(runs[c].executed_steps[n + 1 - j])]

\* C38: the seat-release compensation undoes only what the compensated
\* workflow reserved: a reservation made through the reservation route (also
\* one made after the seat was released once) survives the compensation, and
\* its seat keeps its status.
C38_ReleaseOnlyOwnSeats ==
    [][\A w \in {"w1", "w2"}, reserved_seats \in ItemLists :
          handle_seat_release(w, reserved_seats)
            => \A i \in 1..Len(reservations) :
                  reservations[i].event \in EventIds
                    => /\ \E j \in 1..Len(reservations') : reservations'[j] = reservations[i]
                       /\ seatStatus'[reservations[i].seat] = seatStatus[reservations[i].seat]]_vars

\* C39: once the compensation of a workflow has begun (its status has been
\* TIMEOUT or COMPENSATING) the workflow does not become COMPLETED and no
\* <type>.completed event is published for it.
C39_NoCompletionAfterCompensation ==
    [][\A w \in WorkflowIds :
          (\E i \in 1..Len(statusLog[w]) : statusLog[w][i] \in {W_TIMEOUT, W_COMPENSATING})
            => /\ wfStatus'[w] # W_COMPLETED
               /\ CompletedEvents(w)' = CompletedEvents(w)]_vars

====
